---- MODULE Spec2Model ----
(***************************************************************************)
(* Model of the telegraph-glossary text-marking parser                     *)
(* (services/text_parser.py, components/text_processor.py,                 *)
(* components/settings_panel.py) and of the OpenAI tool-call normaliser    *)
(* (services/ai_providers/openai_provider.py).                             *)
(*                                                                         *)
(* A Python str is a sequence of one-character strings.  A Python dict is  *)
(* a function whose DOMAIN is its key set; the session glossary, whose     *)
(* iteration order matters, is a sequence of entries in insertion order.   *)
(***************************************************************************)
EXTENDS Integers, Sequences, FiniteSets, TLC

\* ------------------------------------------------------------------------
\* Bounds of the model
\* ------------------------------------------------------------------------

\* entries the session glossary may hold
MaxTerms == 2

\* plain characters typed into the input text
MaxTyped == 2

\* marked terms typed into the input text
MaxMarks == 2

\* characters and marked terms typed into the input text, together
MaxPieces == 3

\* the longest prefix or suffix validate_custom_syntax is called with
MaxValidatedLen == 11

\* the most tools handed to one chat request
MaxTools == 2

\* the most tool calls in one message of a completion
MaxCalls == 2

\* the most content blocks in one Claude message
MaxBlocks == 3

\* the most prompts entered before the chat is cleared
MaxTurns == 2

\* the most events or chunks the agent streams in one turn
MaxEvents == 2

\* the most keys, equal ignoring case, a glossary is resolved against
MaxCaseKeys == 3

\* ------------------------------------------------------------------------
\* Characters and strings
\* ------------------------------------------------------------------------

\* characters matched by the regex class \w
WordChars == {"a", "A", "b"}

\* characters matched by the regex class \s
SpaceChars == {" "}

\* str.lower() on one character
LowerChar(c) == CASE c = "A" -> "a" [] c = "B" -> "b" [] OTHER -> c

\* str.lower()
Lower(s) == [i \in 1..Len(s) |-> LowerChar(s[i])]

\* the elements of a list
ToSet(s) == {s[i] : i \in 1..Len(s)}

\* s[i:] starts with p
StartsAt(s, i, p) ==
    /\ i + Len(p) - 1 <= Len(s)
    /\ \A k \in 1..Len(p) : s[i + k - 1] = p[k]

\* p occurs in s as a substring (Python: p in s)
Contains(s, p) == \E i \in 1..(Len(s) - Len(p) + 1) : StartsAt(s, i, p)

RECURSIVE Concat(_)
\* "".join(parts)
Concat(parts) ==
    IF parts = <<>> THEN <<>> ELSE Head(parts) \o Concat(Tail(parts))

\* ------------------------------------------------------------------------
\* Syntax registry (services/text_parser.py)
\* ------------------------------------------------------------------------

\* A compiled pattern: literal prefix, one capture group over a character
\* class ("w" for \w, "ws" for [\w\s]) that is greedy (+) or lazy (+?),
\* literal suffix.
BuiltinPattern(prefix, suffix) ==
    [prefix |-> prefix, suffix |-> suffix, cls |-> "w", lazy |-> FALSE]

\* the four builtin syntaxes: (\w+)<\?>  \[\[(\w+)\]\]  \{\{(\w+)\}\}  <<(\w+)>>
DEFAULT_SYNTAX_PATTERNS ==
    [name \in {"<?>", "[[]]", "{{}}", "<<>>"} |->
        CASE name = "<?>"  -> BuiltinPattern(<<>>, <<"<", "?", ">">>)
          [] name = "[[]]" -> BuiltinPattern(<<"[", "[">>, <<"]", "]">>)
          [] name = "{{}}" -> BuiltinPattern(<<"{", "{">>, <<"}", "}">>)
          [] name = "<<>>" -> BuiltinPattern(<<"<", "<">>, <<">", ">">>)]

\* re.escape makes prefix and suffix literal; the group is [\w\s]+?
create_custom_syntax(prefix, suffix) ==
    [prefix |-> prefix, suffix |-> suffix, cls |-> "ws", lazy |-> TRUE]

\* the display form of a syntax: how a term is marked in a text
Mark(pattern, term) == pattern.prefix \o term \o pattern.suffix

\* validate_custom_syntax's two failure messages
MsgRequired == "Both prefix and suffix are required"

MsgTooLong == "Prefix and suffix must be 10 characters or less"

\* the longest prefix or suffix validate_custom_syntax accepts
MaxAffixLen == 10

\* validate_custom_syntax refusing a prefix or suffix of exactly 10 characters
validate_custom_syntax_strict(prefix, suffix) ==
    IF prefix = <<>> \/ suffix = <<>> THEN <<FALSE, MsgRequired>>
    ELSE IF Len(prefix) >= MaxAffixLen \/ Len(suffix) >= MaxAffixLen
         THEN <<FALSE, MsgTooLong>>
    ELSE <<TRUE, "">>

\* validate_custom_syntax: re.compile of an escaped pattern cannot fail
validate_custom_syntax(prefix, suffix) ==
    IF prefix = <<>> \/ suffix = <<>> THEN <<FALSE, MsgRequired>>
    ELSE IF Len(prefix) > MaxAffixLen \/ Len(suffix) > MaxAffixLen
         THEN <<FALSE, MsgTooLong>>
    ELSE <<TRUE, "">>

\* ------------------------------------------------------------------------
\* Regex matching (re.sub / re.findall over the compiled pattern)
\* ------------------------------------------------------------------------

\* InClass with the builtin group written [\w\s]+ like the custom one
InClassLoose(cls, c) == c \in WordChars \cup SpaceChars

\* c is a character of the group's class
InClass(cls, c) ==
    \/ c \in WordChars
    \/ cls = "ws" /\ c \in SpaceChars

\* the group lengths k >= 1 with which the pattern matches s at position i
GroupLens(pattern, s, i) ==
    LET g == i + Len(pattern.prefix) IN
    IF ~StartsAt(s, i, pattern.prefix) THEN {}
    ELSE {k \in 1..(Len(s) - g + 1) :
            /\ \A j \in g..(g + k - 1) : InClass(pattern.cls, s[j])
            /\ StartsAt(s, g + k, pattern.suffix)}

\* the group length the regex engine settles on at position i (0: no match):
\* the longest for a greedy group, the shortest for a lazy one
GroupLen(pattern, s, i) ==
    LET ks == GroupLens(pattern, s, i) IN
    IF ks = {} THEN 0
    ELSE IF pattern.lazy THEN CHOOSE k \in ks : \A m \in ks : k <= m
    ELSE CHOOSE k \in ks : \A m \in ks : k >= m

RECURSIVE FindAll(_, _, _)
\* the non-overlapping matches of the pattern in s from position i on, left to
\* right: each with the text before it since the previous match, and its group
FindAll(pattern, s, i) ==
    IF i > Len(s) THEN <<>>
    ELSE LET k == GroupLen(pattern, s, i)
             g == i + Len(pattern.prefix)
         IN IF k = 0 THEN FindAll(pattern, s, i + 1)
            ELSE <<[start |-> i,
                    term  |-> SubSeq(s, g, g + k - 1),
                    stop  |-> g + k + Len(pattern.suffix) - 1]>>
                 \o FindAll(pattern, s, g + k + Len(pattern.suffix))

\* re.findall(pattern, text)
Matches(pattern, s) == FindAll(pattern, s, 1)

\* ------------------------------------------------------------------------
\* TextParser (services/text_parser.py)
\* ------------------------------------------------------------------------

\* the session glossary: entries [term, telegraph_url] in insertion order,
\* one per key
Keys(g) == {g[i].term : i \in 1..Len(g)}

\* glossary[term]
Entry(g, term) == g[CHOOSE i \in 1..Len(g) : g[i].term = term]

\* NewTextParser falling back to the default syntax instead of raising
NewTextParserDefaulting(registry, syntax, custom_prefix, custom_suffix) ==
    IF syntax = "custom" /\ custom_prefix # <<>> /\ custom_suffix # <<>>
    THEN [raised |-> FALSE, syntax |-> syntax,
          pattern |-> create_custom_syntax(custom_prefix, custom_suffix)]
    ELSE IF syntax \in DOMAIN registry
    THEN [raised |-> FALSE, syntax |-> syntax, pattern |-> registry[syntax]]
    ELSE [raised |-> FALSE, syntax |-> "<?>", pattern |-> registry["<?>"]]

\* TextParser.__init__: the parser object, or the ValueError it raises
NewTextParser(registry, syntax, custom_prefix, custom_suffix) ==
    IF syntax = "custom" /\ custom_prefix # <<>> /\ custom_suffix # <<>>
    THEN [raised |-> FALSE, syntax |-> syntax,
          pattern |-> create_custom_syntax(custom_prefix, custom_suffix)]
    ELSE IF syntax \in DOMAIN registry
    THEN [raised |-> FALSE, syntax |-> syntax, pattern |-> registry[syntax]]
    ELSE [raised |-> TRUE, syntax |-> syntax,
          error |-> "Unknown syntax: " \o syntax]

\* format_link with the two arguments of the markdown link swapped
format_link_swapped(term, url, output_format) ==
    IF output_format = "html"
    THEN <<"<", "a", " ", "h", "r", "e", "f", "=", "\"">> \o url
         \o <<"\"", ">">> \o term \o <<"<", "/", "a", ">">>
    ELSE IF output_format = "telegram" THEN term
    ELSE <<"[">> \o url \o <<"]", "(">> \o term \o <<")">>

\* format_link with the anchor text and the address swapped
format_link_html_swapped(term, url, output_format) ==
    IF output_format = "html"
    THEN <<"<", "a", " ", "h", "r", "e", "f", "=", "\"">> \o term
         \o <<"\"", ">">> \o url \o <<"<", "/", "a", ">">>
    ELSE IF output_format = "telegram" THEN term
    ELSE <<"[">> \o term \o <<"]", "(">> \o url \o <<")">>

\* TextParser._format_link
format_link(term, url, output_format) ==
    IF output_format = "html"
    THEN <<"<", "a", " ", "h", "r", "e", "f", "=", "\"">> \o url
         \o <<"\"", ">">> \o term \o <<"<", "/", "a", ">">>
    ELSE IF output_format = "telegram" THEN term
    ELSE <<"[">> \o term \o <<"]", "(">> \o url \o <<")">>

\* TextParser._format_missing
format_missing(term, output_format) ==
    IF output_format = "html"
    THEN <<"<", "s", "p", "a", "n", " ", "s", "t", "y", "l", "e", "=", "\"",
           "c", "o", "l", "o", "r", ":", " ", "r", "e", "d", ";", "\"", ">">>
         \o term \o <<"<", "/", "s", "p", "a", "n", ">">>
    ELSE IF output_format = "telegram" THEN <<"[">> \o term \o <<"?", "]">>
    ELSE <<"*", "*">> \o term \o <<"*", "*">>

\* the glossary keys equal to term ignoring case, as indices in iteration order
CaseMatches(g, term) == {i \in 1..Len(g) : Lower(g[i].term) = Lower(term)}

\* replacer recording the raw term, not the glossary key, in the fallback
replacer_raw(g, term, output_format) ==
    IF term \in Keys(g)
    THEN [found |-> <<term>>, missing |-> <<>>,
          text |-> format_link(term, Entry(g, term).telegraph_url, output_format)]
    ELSE IF CaseMatches(g, term) # {}
    THEN LET i == CHOOSE i \in CaseMatches(g, term) :
                      \A j \in CaseMatches(g, term) : i <= j
         IN [found |-> <<term>>, missing |-> <<>>,
             text |-> format_link(term, g[i].telegraph_url, output_format)]
    ELSE [found |-> <<>>, missing |-> <<term>>,
          text |-> format_missing(term, output_format)]

\* replacer taking the last of the keys that match ignoring case, and taking
\* it even when the term is a key itself
replacer_last(g, term, output_format) ==
    IF CaseMatches(g, term) # {}
    THEN LET i == CHOOSE i \in CaseMatches(g, term) :
                      \A j \in CaseMatches(g, term) : i >= j
         IN [found |-> <<g[i].term>>, missing |-> <<>>,
             text |-> format_link(term, g[i].telegraph_url, output_format)]
    ELSE [found |-> <<>>, missing |-> <<term>>,
          text |-> format_missing(term, output_format)]

\* process_text.replacer on one captured term: the replacement text and the
\* term appended to found_terms or to missing_terms
replacer(g, term, output_format) ==
    IF term \in Keys(g)
    THEN [found |-> <<term>>, missing |-> <<>>,
          text |-> format_link(term, Entry(g, term).telegraph_url, output_format)]
    ELSE IF CaseMatches(g, term) # {}
    THEN LET i == CHOOSE i \in CaseMatches(g, term) :
                      \A j \in CaseMatches(g, term) : i <= j
         IN [found |-> <<g[i].term>>, missing |-> <<>>,
             text |-> format_link(term, g[i].telegraph_url, output_format)]
    ELSE [found |-> <<>>, missing |-> <<term>>,
          text |-> format_missing(term, output_format)]

RECURSIVE Substitute(_, _, _, _)
\* re.sub: s from position pos on, with match number n and the later ones
\* replaced by reps[n], ...
Substitute(s, ms, reps, n) ==
    LET pos == IF n = 1 THEN 1 ELSE ms[n - 1].stop + 1 IN
    IF n > Len(ms) THEN SubSeq(s, pos, Len(s))
    ELSE SubSeq(s, pos, ms[n].start - 1) \o reps[n].text
         \o Substitute(s, ms, reps, n + 1)

\* the terms a list of replacer outcomes appended to one of the two lists
Appended(reps, list) ==
    Concat([n \in 1..Len(reps) |->
              IF list = "found" THEN reps[n].found ELSE reps[n].missing])

\* the list returned as the replacer filled it, without set()
ListAsFilled(l) == {l}

\* the lists list(set(l)) may return: the elements of l, each once, in the
\* order the set happens to iterate in
ListOfSet(l) ==
    {o \in UNION {[1..n -> ToSet(l)] : n \in {Cardinality(ToSet(l))}} :
        ToSet(o) = ToSet(l)}

\* TextParser.process_text up to the return statement: the processed text and
\* the two lists the replacer filled
process_text(pattern, g, text, output_format) ==
    LET ms   == Matches(pattern, text)
        reps == [n \in 1..Len(ms) |-> replacer(g, ms[n].term, output_format)]
    IN [processed     |-> Substitute(text, ms, reps, 1),
        found_terms   |-> Appended(reps, "found"),
        missing_terms |-> Appended(reps, "missing")]

\* process_text looking the pattern up in the registry at each call
PatternFromRegistry(p, registry) ==
    IF p.syntax \in DOMAIN registry THEN registry[p.syntax] ELSE p.pattern

\* self.pattern, the pattern a parser scans with (fixed at construction)
PatternOf(p, registry) == p.pattern

\* ------------------------------------------------------------------------
\* Inputs of the model
\* ------------------------------------------------------------------------

None == [none |-> TRUE]

\* no st.error message
NoError == ""

\* the terms a user adds to the glossary
GlossaryTerms == {<<"a">>, <<"A">>, <<"a", " ", "b">>}

\* the terms a user marks in a text
MarkTerms == GlossaryTerms \cup {<<"b">>}

\* the characters a user types around the marks
TypedChars == {"b", " ", "{", "<"}

\* the output formats of the selectbox
Formats == {"telegram", "markdown", "html"}

\* the custom prefix/suffix pairs the settings may carry
CustomAffixes == {<<>>, <<"~", "[">>, <<"]", "~">>}

\* the prefix/suffix pairs register_custom_syntax is called with
RegisteredPairs == {<<(<<"~", "[">>), (<<"]", "~">>)>>, <<(<<"<", "<">>), (<<">", ">">>)>>}

\* the marking_syntax values the settings may carry: the radio's options and
\* a name that is in the registry only once register_custom_syntax added it
SyntaxNames == DOMAIN DEFAULT_SYNTAX_PATTERNS \cup {"custom", "mine"}

\* the URL the page service gives the page of a term
PageUrl(term) == <<"/">> \o term

\* ------------------------------------------------------------------------
\* State
\* ------------------------------------------------------------------------

VARIABLES
    SYNTAX_PATTERNS,  \* text_parser.SYNTAX_PATTERNS, the module-level registry
    settings,         \* marking_syntax, custom_prefix, custom_suffix of the user
    glossary,         \* st.session_state.glossary
    input_text,       \* the text area of the text processor
    typed,            \* plain characters typed into input_text
    marks,            \* marked terms typed into input_text
    parser,           \* the TextParser constructed last, None before
    returned,         \* what process_text returned for the current text and
                      \* glossary, None when it did not run on them
    error,            \* the st.error message of the last handler run, "" if none
    validation,       \* the last call of validate_custom_syntax and its result
    request,          \* the parameters of the last chat completion request
    response,         \* the response dictionary OpenAIProvider.chat returned
    tool_calls,       \* what extract_tool_calls returned for the response
    provider_call,    \* the last call of a provider method and what it returned
    ai_provider,      \* st.session_state.ai_provider
    chat_messages,    \* st.session_state.chat_messages
    pc,               \* where the chat turn is
    requests,         \* the messages of the provider.chat calls of the turn
    model_response,   \* what the last provider.chat of the turn returned
    pending_calls,    \* the tool calls _handle_tool_calls was given
    results,          \* the results list of _handle_tool_calls
    dispatched,       \* the calls mcp_client.call_tool_sync received in the turn
    response_text,    \* what _get_ai_response returns
    stream,           \* the streaming call of the turn: "events", "text" or "none"
    threads,          \* the worker threads started by the streaming call
    worker_pc,        \* where the worker thread of the streaming call is
    queue,            \* the queue.Queue of the streaming call
    produced,         \* everything put on the queue so far, in order
    error_holder,     \* error_holder[0] of the streaming call
    consumer_pc,      \* where the consuming generator is
    waited,           \* seconds the current queue.get has waited
    yielded,          \* what the consuming generator has yielded so far
    page,             \* the text of the Telegraph page of the term under edit
    entry,            \* st.session_state.glossary[term] of the term under edit
    update,           \* the update of the term page that has just been made
    shown,            \* what _update_term has shown: st.error, st.info, toast
    index_page,       \* the content of the glossary index page on Telegraph
    op,               \* the glossary operation or tool call that was just made
    services,         \* the TelegraphAIService of each browser session, or None
    environ,          \* os.environ of the server process, by variable name
    agents,           \* the Agent the chat call of each session has created
    model_call        \* the model call that was just made and the key it used

\* the last call into the provider classes
providerVars == <<provider_call>>

\* the chat session and the turn it is in
chatVars == <<ai_provider, chat_messages, pc, requests, model_response,
              pending_calls, results, dispatched, response_text>>

\* the streaming call of a turn
streamVars == <<stream, threads, worker_pc, queue, produced, error_holder,
                consumer_pc, waited, yielded>>

\* the term under edit in the glossary manager
termVars == <<page, entry, update, shown>>

\* the glossary manager and the pages its operations write
managerVars == <<index_page, op>>

\* the TelegraphAIService instances of the server process
serviceVars == <<services, environ, agents, model_call>>

\* the state of the chat turns, the streams and the term editor
moreVars == <<providerVars, chatVars, streamVars, termVars, managerVars,
              serviceVars>>

\* the state of the AI provider
aiVars == <<request, response, tool_calls, moreVars>>

\* the state of the text processor and the settings
textVars == <<SYNTAX_PATTERNS, settings, glossary, input_text, typed, marks,
              parser, returned, error, validation>>

\* what a call into the provider classes leaves alone
notProviders == <<textVars, request, response, tool_calls, chatVars, streamVars,
                  termVars, managerVars, serviceVars>>

\* what a chat turn leaves alone
notChat == <<textVars, request, response, tool_calls, providerVars, streamVars,
             termVars, managerVars, serviceVars>>

\* what a streaming call leaves alone
notStream == <<textVars, request, response, tool_calls, providerVars, chatVars,
               termVars, managerVars, serviceVars>>

\* what an edit of a term leaves alone
notTerm == <<textVars, request, response, tool_calls, providerVars, chatVars,
             streamVars, managerVars, serviceVars>>

\* what a TelegraphAIService leaves alone
notService == <<textVars, request, response, tool_calls, providerVars, chatVars,
                streamVars, termVars, managerVars>>

\* what a glossary operation or a tool call leaves alone
notManager == <<SYNTAX_PATTERNS, settings, input_text, typed, marks, parser,
                returned, error, validation, request, response, tool_calls,
                providerVars, chatVars, streamVars, termVars, serviceVars>>

vars == <<SYNTAX_PATTERNS, settings, glossary, input_text, typed, marks,
          parser, returned, error, validation, aiVars>>

Init ==
    /\ SYNTAX_PATTERNS = DEFAULT_SYNTAX_PATTERNS
    /\ settings \in {st \in [marking_syntax : SyntaxNames,
                             custom_prefix : CustomAffixes,
                             custom_suffix : CustomAffixes] :
                        \/ st.marking_syntax = "custom"
                        \/ st.custom_prefix = <<>> /\ st.custom_suffix = <<>>}
    /\ glossary = <<>>
    /\ input_text = <<>>
    /\ typed = 0
    /\ marks = 0
    /\ parser = None
    /\ returned = None
    /\ error = NoError
    /\ validation = None
    /\ request = None
    /\ response = None
    /\ tool_calls = None
    /\ provider_call = None
    /\ ai_provider = "Claude"
    /\ chat_messages = <<>>
    /\ pc = "AwaitingUserInput"
    /\ requests = <<>>
    /\ model_response = None
    /\ pending_calls = <<>>
    /\ results = <<>>
    /\ dispatched = <<>>
    /\ response_text = None
    /\ stream = "none"
    /\ threads = 0
    /\ worker_pc = "none"
    /\ queue = <<>>
    /\ produced = <<>>
    /\ error_holder = None
    /\ consumer_pc = "idle"
    /\ waited = 0
    /\ yielded = <<>>
    /\ page = <<"a", "\n", "b">>
    /\ entry = [definition_html |-> <<"<", "p", ">", "b", "<", "/", "p", ">">>,
                telegraph_path |-> "a-11-02"]
    /\ update = None
    /\ shown = {}
    /\ index_page = [terms |-> <<>>]
    /\ op = None
    /\ services = [session \in {1, 2} |-> [none |-> TRUE]]
    /\ environ = [name \in {"ANTHROPIC_API_KEY", "OPENAI_API_KEY",
                             "GOOGLE_API_KEY"} |-> [none |-> TRUE]]
    /\ agents = [session \in {1, 2} |-> [none |-> TRUE]]
    /\ model_call = [none |-> TRUE]

\* glossary_manager._add_term: a term that exists is refused, else its page is
\* created and the entry is inserted
AddTerm(term) ==
    /\ Len(glossary) < MaxTerms
    /\ IF term \in Keys(glossary)
       THEN /\ error' = "Term already exists"
            /\ UNCHANGED <<glossary, returned>>
       ELSE /\ glossary' = Append(glossary,
                   [term |-> term, telegraph_url |-> PageUrl(term)])
            /\ returned' = None
            /\ error' = NoError
    /\ UNCHANGED <<SYNTAX_PATTERNS, settings, input_text, typed, marks, parser>>
    /\ UNCHANGED <<validation, aiVars>>

\* the user types one plain character at the end of the text area
TypeChar(c) ==
    /\ typed < MaxTyped
    /\ typed + marks < MaxPieces
    /\ input_text' = Append(input_text, c)
    /\ typed' = typed + 1
    /\ returned' = None
    /\ error' = NoError
    /\ UNCHANGED <<SYNTAX_PATTERNS, settings, glossary, marks, parser>>
    /\ UNCHANGED <<validation, aiVars>>

\* the user marks a term at the end of the text area, in the syntax the
\* settings name (the one the info line of the text processor displays)
TypeMark(term) ==
    LET p == NewTextParser(SYNTAX_PATTERNS, settings.marking_syntax,
                           settings.custom_prefix, settings.custom_suffix)
    IN /\ marks < MaxMarks
       /\ typed + marks < MaxPieces
       /\ ~p.raised
       /\ input_text' = input_text \o Mark(p.pattern, term)
       /\ marks' = marks + 1
       /\ returned' = None
       /\ error' = NoError
       /\ UNCHANGED <<SYNTAX_PATTERNS, settings, glossary, typed, parser>>
       /\ UNCHANGED <<validation, aiVars>>

\* what a call of process_text on parser p returns: the processed text and
\* list(set(found_terms)), list(set(missing_terms)); the record notes the
\* format and pattern of the call and whether it repeats the call before it
Returns(p, output_format, again) ==
    LET r == process_text(PatternOf(p, SYNTAX_PATTERNS), glossary, input_text,
                          output_format)
    IN {[fmt |-> output_format, pattern |-> p.pattern, repeat |-> again,
         processed |-> r.processed, found |-> f, missing |-> m] :
          f \in ListOfSet(r.found_terms), m \in ListOfSet(r.missing_terms)}

\* text_processor._process_and_display: construct a parser from the settings
\* and process the text with it; an exception becomes an st.error message
ProcessAndDisplay(output_format) ==
    LET p == NewTextParser(SYNTAX_PATTERNS, settings.marking_syntax,
                           settings.custom_prefix, settings.custom_suffix)
    IN /\ input_text # <<>>
       /\ IF p.raised
          THEN /\ error' = p.error
               /\ returned' = None
          ELSE /\ returned' \in Returns(p, output_format, FALSE)
               /\ error' = NoError
       /\ UNCHANGED <<SYNTAX_PATTERNS, settings, glossary, input_text, typed,
                      marks, parser>>
       /\ UNCHANGED <<validation, aiVars>>

Next ==
    \/ \E term \in GlossaryTerms : AddTerm(term)
    \/ \E c \in TypedChars : TypeChar(c)
    \/ \E term \in MarkTerms : TypeMark(term)
    \/ \E f \in Formats : ProcessAndDisplay(f)

\* the text processor of one session: the glossary grows, a text is typed and
\* processed
Spec == Init /\ [][Next]_vars

\* ------------------------------------------------------------------------
\* The parser as a library: TextParser objects and the registry
\* ------------------------------------------------------------------------

\* TextParser(syntax, glossary, custom_prefix, custom_suffix): a ValueError
\* leaves no object behind
Construct(syntax, custom_prefix, custom_suffix) ==
    LET p == NewTextParser(SYNTAX_PATTERNS, syntax, custom_prefix, custom_suffix)
    IN /\ IF p.raised
          THEN /\ error' = p.error
               /\ UNCHANGED parser
          ELSE /\ parser' = p
               /\ error' = NoError
       /\ returned' = None
       /\ UNCHANGED <<SYNTAX_PATTERNS, settings, glossary, input_text, typed, marks>>
       /\ UNCHANGED <<validation, aiVars>>

\* parser.process_text(input_text, output_format) on the parser constructed last
ProcessText(output_format) ==
    /\ parser # None
    /\ returned' \in Returns(parser, output_format,
                               /\ returned # None
                               /\ returned.fmt = output_format
                               /\ returned.pattern = parser.pattern)
    /\ UNCHANGED <<SYNTAX_PATTERNS, settings, glossary, input_text, typed, marks,
                   parser, error>>
    /\ UNCHANGED <<validation, aiVars>>

\* text_parser.register_custom_syntax
RegisterCustomSyntax(name, prefix, suffix) ==
    /\ SYNTAX_PATTERNS' =
          [n \in DOMAIN SYNTAX_PATTERNS \cup {name} |->
              IF n = name THEN create_custom_syntax(prefix, suffix)
              ELSE SYNTAX_PATTERNS[n]]
    /\ UNCHANGED <<settings, glossary, input_text, typed, marks, parser,
                   returned, error>>
    /\ UNCHANGED <<validation, aiVars>>

NextLibrary ==
    \/ \E term \in GlossaryTerms : AddTerm(term)
    \/ \E term \in MarkTerms : TypeMark(term)
    \/ Construct(settings.marking_syntax, settings.custom_prefix,
                 settings.custom_suffix)
    \/ \E f \in Formats : ProcessText(f)
    \/ \E f \in Formats : ProcessAndDisplay(f)
    \/ \E pair \in RegisteredPairs : RegisterCustomSyntax("mine", pair[1], pair[2])

\* callers of the parser library: parsers are constructed and used again while
\* the registry changes
SpecLibrary == Init /\ [][NextLibrary]_vars

\* ------------------------------------------------------------------------
\* Claims about TextParser.process_text (checked under Spec)
\* ------------------------------------------------------------------------

\* text has a marked term: the prefix, one or more characters of the group's
\* class, the suffix
HasMark(pattern, text) ==
    \E i \in 1..Len(text), k \in 1..Len(text) :
        /\ StartsAt(text, i, pattern.prefix)
        /\ i + Len(pattern.prefix) + k - 1 <= Len(text)
        /\ \A j \in 1..k :
              LET c == text[i + Len(pattern.prefix) + j - 1] IN
              \/ c \in WordChars
              \/ pattern.cls = "ws" /\ c \in SpaceChars
        /\ StartsAt(text, i + Len(pattern.prefix) + k, pattern.suffix)

\* the raw terms the last call captured, in text order
Captured == LET ms == Matches(returned.pattern, input_text)
            IN [n \in 1..Len(ms) |-> ms[n].term]

\* term equals a glossary key, exactly or ignoring case
Resolves(term) == \E k \in Keys(glossary) : Lower(k) = Lower(term)

\* the markdown link of a term
MarkdownLink(term, url) == <<"[">> \o term \o <<"]", "(">> \o url \o <<")">>

\* the markdown rendering of a missing term
MarkdownMissing(term) == <<"*", "*">> \o term \o <<"*", "*">>

\* a marked term that matches no key is rendered **term**, is listed in missing,
\* and leaves found empty when no other marked term resolves
C1_MissingPart ==
    /\ \A n \in 1..Len(Captured) :
          ~Resolves(Captured[n]) =>
              /\ Contains(returned.processed, MarkdownMissing(Captured[n]))
              /\ Captured[n] \in ToSet(returned.missing)
    /\ (\A n \in 1..Len(Captured) : ~Resolves(Captured[n]))
          => returned.found = <<>>

\* what C1 promises of key number e of the glossary when the text holds its mark
\* at position i
C1_LinkPart(e, i) ==
    /\ Contains(returned.processed,
                MarkdownLink(glossary[e].term, glossary[e].telegraph_url))
    /\ glossary[e].term \in ToSet(returned.found)
    /\ Len(Captured) <= 1 => returned.missing = <<>>

\* C1 as stated: with output format markdown, for every key T of the glossary
\* and every syntax, a text that marks T yields output containing [T](U), T is
\* in found and missing is empty when T is the only marked term; a marked term
\* matching no key becomes **term**, is in missing, and found stays empty.
C1_AsStated ==
    (returned # None /\ returned.fmt = "markdown") =>
        /\ \A e \in 1..Len(glossary), i \in 1..Len(input_text) :
              StartsAt(input_text, i, Mark(returned.pattern, glossary[e].term))
                  => C1_LinkPart(e, i)
        /\ C1_MissingPart

\* the pattern's group accepts the whole term: word characters for a builtin
\* syntax, word and whitespace characters for a custom one
GroupAccepts(pattern, term) ==
    /\ term # <<>>
    /\ \A n \in 1..Len(term) :
          \/ term[n] \in WordChars
          \/ pattern.cls = "ws" /\ term[n] \in SpaceChars

\* the delimiters of a custom syntax hold no word or whitespace character and
\* the suffix does not start the prefix (the builtin delimiters are such)
CleanDelimiters(pattern) ==
    /\ \A n \in 1..Len(pattern.prefix) : pattern.prefix[n] \notin WordChars \cup SpaceChars
    /\ \A n \in 1..Len(pattern.suffix) : pattern.suffix[n] \notin WordChars \cup SpaceChars
    /\ ~StartsAt(pattern.prefix, 1, pattern.suffix)

\* C1, amended: with output format markdown, for every glossary key T made only
\* of characters the syntax's group accepts (word characters for the builtin
\* syntaxes; word and whitespace characters for a custom syntax with clean
\* delimiters), a text holding T's mark at its start or directly after
\* whitespace yields output containing [T](U), T is in found and missing is
\* empty when T is the only marked term; a marked term matching no key becomes
\* **term**, is in missing, and found stays empty.
C1_MarkdownRoundTrip ==
    (returned # None /\ returned.fmt = "markdown") =>
        /\ \A e \in 1..Len(glossary), i \in 1..Len(input_text) :
              ( /\ StartsAt(input_text, i, Mark(returned.pattern, glossary[e].term))
                /\ i = 1 \/ input_text[i - 1] \in SpaceChars
                /\ GroupAccepts(returned.pattern, glossary[e].term)
                /\ CleanDelimiters(returned.pattern) )
                  => C1_LinkPart(e, i)
        /\ C1_MissingPart

\* a key is marked after a typed space and linked, next to a missing term
C1_Witness ==
    /\ returned # None
    /\ returned.fmt = "markdown"
    /\ returned.missing # <<>>
    /\ \E e \in 1..Len(glossary), i \in 2..Len(input_text) :
          /\ StartsAt(input_text, i, Mark(returned.pattern, glossary[e].term))
          /\ input_text[i - 1] \in SpaceChars
          /\ GroupAccepts(returned.pattern, glossary[e].term)
          /\ CleanDelimiters(returned.pattern)
          /\ Contains(returned.processed,
                      MarkdownLink(glossary[e].term, glossary[e].telegraph_url))

\* C2: for every glossary, syntax and output format, process_text on a text
\* with no marked term returns the text unchanged, found empty, missing empty.
C2_NoMatchUnchanged ==
    (returned # None /\ ~HasMark(returned.pattern, input_text)) =>
        /\ returned.processed = input_text
        /\ returned.found = <<>>
        /\ returned.missing = <<>>

\* a text with delimiters around a term the builtin group refuses was processed
C2_Witness ==
    /\ returned # None
    /\ ~HasMark(returned.pattern, input_text)
    /\ Keys(glossary) # {}
    /\ \E t \in MarkTerms : Contains(input_text, Mark(returned.pattern, t))

\* C3: a marked raw term that is no key but equals a key ignoring case puts that
\* key, never the raw term, into found, and is not reported missing.
C3_CanonicalKeyFound ==
    returned # None =>
        \A n \in 1..Len(Captured) :
            (Captured[n] \notin Keys(glossary) /\ Resolves(Captured[n])) =>
                /\ \E k \in Keys(glossary) :
                      Lower(k) = Lower(Captured[n]) /\ k \in ToSet(returned.found)
                /\ Captured[n] \notin ToSet(returned.found)
                /\ Captured[n] \notin ToSet(returned.missing)

\* a was marked while the glossary holds A and not a
C3_Witness ==
    /\ returned # None
    /\ <<"a">> \in ToSet(Captured)
    /\ <<"a">> \notin Keys(glossary)
    /\ <<"A">> \in Keys(glossary)
    /\ returned.found = << <<"A">> >>

\* the URL of the key a raw term resolves to: the key itself or the first key
\* equal to it ignoring case
UrlOf(term) ==
    IF term \in Keys(glossary) THEN Entry(glossary, term).telegraph_url
    ELSE glossary[CHOOSE i \in 1..Len(glossary) :
                    /\ Lower(glossary[i].term) = Lower(term)
                    /\ \A j \in 1..(i - 1) : Lower(glossary[j].term) # Lower(term)
                 ].telegraph_url

\* <a href="url">term</a>
HtmlAnchor(term, url) ==
    <<"<", "a", " ", "h", "r", "e", "f", "=", "\"">> \o url \o <<"\"", ">">>
    \o term \o <<"<", "/", "a", ">">>

\* <span style="color:red">term</span>
HtmlSpanAsStated(term) ==
    <<"<", "s", "p", "a", "n", " ", "s", "t", "y", "l", "e", "=", "\"",
      "c", "o", "l", "o", "r", ":", "r", "e", "d", "\"", ">">>
    \o term \o <<"<", "/", "s", "p", "a", "n", ">">>

\* <span style="color: red;">term</span>
HtmlSpan(term) ==
    <<"<", "s", "p", "a", "n", " ", "s", "t", "y", "l", "e", "=", "\"",
      "c", "o", "l", "o", "r", ":", " ", "r", "e", "d", ";", "\"", ">">>
    \o term \o <<"<", "/", "s", "p", "a", "n", ">">>

\* the input text with each marked term replaced by its html rendering, the
\* unresolved ones by the span as stated or as amended
HtmlExpected(stated) ==
    LET ms == Matches(returned.pattern, input_text) IN
    Substitute(input_text, ms,
               [n \in 1..Len(ms) |->
                   [text |-> IF Resolves(ms[n].term)
                             THEN HtmlAnchor(ms[n].term, UrlOf(ms[n].term))
                             ELSE IF stated THEN HtmlSpanAsStated(ms[n].term)
                             ELSE HtmlSpan(ms[n].term)]], 1)

\* C4 as stated: with output format html every resolved marked term becomes
\* <a href="url">rawTerm</a> and every unresolved one
\* <span style="color:red">rawTerm</span>.
C4_AsStated ==
    (returned # None /\ returned.fmt = "html") =>
        returned.processed = HtmlExpected(TRUE)

\* C4, amended: with output format html every resolved marked term becomes
\* <a href="url">rawTerm</a> and every unresolved one
\* <span style="color: red;">rawTerm</span>.
C4_HtmlRendering ==
    (returned # None /\ returned.fmt = "html") =>
        returned.processed = HtmlExpected(FALSE)

\* a text with a resolved and an unresolved marked term was rendered as html
C4_Witness ==
    /\ returned # None
    /\ returned.fmt = "html"
    /\ returned.found # <<>>
    /\ returned.missing # <<>>

\* s holds no element twice
NoDuplicates(s) == \A i, j \in 1..Len(s) : s[i] = s[j] => i = j

\* C5: found and missing have set semantics: however often a term is marked,
\* each key is at most once in found and each raw term at most once in missing.
C5_SetSemantics ==
    returned # None => NoDuplicates(returned.found) /\ NoDuplicates(returned.missing)

\* two marks, a and A, resolved to the one key A, which found lists once
C5_Witness ==
    /\ returned # None
    /\ Len(Captured) = 2
    /\ Captured[1] # Captured[2]
    /\ Keys(glossary) = { <<"A">> }
    /\ returned.found = << <<"A">> >>

\* the settings name no registered syntax and carry no usable custom pair
Unrecognized ==
    /\ settings.marking_syntax \notin DOMAIN SYNTAX_PATTERNS
    /\ ~( /\ settings.marking_syntax = "custom"
          /\ settings.custom_prefix # <<>>
          /\ settings.custom_suffix # <<>> )

\* C7: constructing a parser for a syntax that is not registered, without a
\* usable custom prefix/suffix pair, fails with the unknown-syntax error before
\* any text is scanned: no parser object results, the handler shows the error
\* and process_text returns nothing.
C7_FailsAtConstruction ==
    [][ ( /\ Unrecognized
          /\ \/ \E f \in Formats : ProcessAndDisplay(f)
             \/ Construct(settings.marking_syntax, settings.custom_prefix,
                          settings.custom_suffix) ) =>
            /\ error' = "Unknown syntax: " \o settings.marking_syntax
            /\ returned' = None
            /\ parser' = parser ]_vars

\* a parser was asked for with syntax custom and an empty prefix
C7_Witness ==
    /\ error = "Unknown syntax: custom"
    /\ settings.custom_prefix = <<>>
    /\ settings.custom_suffix # <<>>
    /\ parser = None
    /\ returned = None

\* C6: process_text has no hidden state: a call repeated on the same parser
\* with the same text, glossary and format returns the same processed text and
\* the same found and missing sets, whatever was registered or constructed in
\* between.
C6_Deterministic ==
    [][ ( /\ returned # None
          /\ returned' # None
          /\ returned'.repeat
          /\ returned'.fmt = returned.fmt
          /\ returned'.pattern = returned.pattern
          /\ input_text' = input_text
          /\ glossary' = glossary ) =>
            /\ returned'.processed = returned.processed
            /\ ToSet(returned'.found) = ToSet(returned.found)
            /\ ToSet(returned'.missing) = ToSet(returned.missing) ]_vars

\* a call was repeated on a parser of syntax "mine", on a text whose marked term
\* is missing, while the registry no longer holds the parser's pattern
C6_Witness ==
    /\ returned # None
    /\ returned.repeat
    /\ returned.missing # <<>>
    /\ parser.syntax = "mine"
    /\ SYNTAX_PATTERNS["mine"] # parser.pattern

\* ------------------------------------------------------------------------
\* The syntax settings (components/settings_panel.py)
\* ------------------------------------------------------------------------

\* the character c, n times
Repeat(c, n) == [i \in 1..n |-> c]

\* the prefixes and suffixes validate_custom_syntax is called with
ValidatedAffixes ==
    {Repeat("~", n) : n \in 0..MaxValidatedLen} \cup (CustomAffixes \ {<<>>})

\* a call of validate_custom_syntax(prefix, suffix)
ValidateCustomSyntax(prefix, suffix) ==
    /\ validation' = [prefix |-> prefix, suffix |-> suffix,
                      result |-> validate_custom_syntax(prefix, suffix)]
    /\ UNCHANGED <<SYNTAX_PATTERNS, settings, glossary, input_text, typed, marks,
                   parser, returned, error, aiVars>>

\* _render_syntax_settings with "custom" selected and Save clicked: a non-empty
\* pair is validated, saved by _save_custom_syntax when valid and refused with
\* the validation message otherwise
SaveCustomSyntax(new_prefix, new_suffix) ==
    LET result == validate_custom_syntax(new_prefix, new_suffix) IN
    /\ new_prefix # <<>> /\ new_suffix # <<>>
    /\ validation' = [prefix |-> new_prefix, suffix |-> new_suffix,
                      result |-> result]
    /\ IF result[1]
       THEN /\ settings' = [marking_syntax |-> "custom",
                            custom_prefix |-> new_prefix,
                            custom_suffix |-> new_suffix]
            /\ error' = NoError
       ELSE /\ error' = result[2]
            /\ UNCHANGED settings
    /\ UNCHANGED <<SYNTAX_PATTERNS, glossary, input_text, typed, marks, parser,
                   returned, aiVars>>

\* _render_syntax_settings with a registered syntax selected and Save clicked:
\* _save_syntax
SaveSyntax(syntax) ==
    /\ syntax \in DOMAIN SYNTAX_PATTERNS
    /\ syntax # settings.marking_syntax
    /\ settings' = [settings EXCEPT !.marking_syntax = syntax]
    /\ error' = NoError
    /\ UNCHANGED <<SYNTAX_PATTERNS, glossary, input_text, typed, marks, parser,
                   returned, validation, aiVars>>

NextSettings ==
    \/ \E prefix \in ValidatedAffixes, suffix \in ValidatedAffixes :
          ValidateCustomSyntax(prefix, suffix)
    \/ \E prefix \in CustomAffixes, suffix \in CustomAffixes :
          SaveCustomSyntax(prefix, suffix)
    \/ \E syntax \in SyntaxNames : SaveSyntax(syntax)

\* the settings panel of one session
SpecSettings == Init /\ [][NextSettings]_vars

\* C8: validate_custom_syntax fails with the empty-field reason whenever prefix
\* or suffix is empty, with the too-long reason whenever both are non-empty and
\* one has more than 10 characters, and succeeds for every non-empty pair of at
\* most 10 characters each; the empty-field check comes first.
C8_ValidateCustom ==
    validation # None =>
        LET p == validation.prefix
            x == validation.suffix
        IN /\ (p = <<>> \/ x = <<>>) =>
                 validation.result = <<FALSE, "Both prefix and suffix are required">>
           /\ (p # <<>> /\ x # <<>> /\ (Len(p) > 10 \/ Len(x) > 10)) =>
                 validation.result =
                     <<FALSE, "Prefix and suffix must be 10 characters or less">>
           /\ (p # <<>> /\ x # <<>> /\ Len(p) <= 10 /\ Len(x) <= 10) =>
                 validation.result = <<TRUE, "">>

\* an empty prefix was validated with a suffix of 11 characters
C8_Witness ==
    /\ validation # None
    /\ validation.prefix = <<>>
    /\ Len(validation.suffix) = 11
    /\ validation.result[2] = "Both prefix and suffix are required"

\* ------------------------------------------------------------------------
\* JSON-shaped Python values (dict, list, str, None)
\* ------------------------------------------------------------------------

JNull == [kind |-> "null"]
JString(value) == [kind |-> "string", value |-> value]
\* a str whose content is parsed: the sequence of its JSON tokens
JText(tokens) == [kind |-> "string", tokens |-> tokens]
JArray(items) == [kind |-> "array", items |-> items]
JObject(members) == [kind |-> "object", members |-> members]
EmptyMembers == [k \in {} |-> k]

\* dict.get(key, default)
Get(d, key, default) ==
    IF key \in DOMAIN d.members THEN d.members[key] ELSE default

\* Python truth value of "not v"
Falsy(v) ==
    \/ v.kind = "null"
    \/ v.kind = "array" /\ v.items = <<>>
    \/ v.kind = "object" /\ DOMAIN v.members = {}

\* members with key set to value (a later duplicate key replaces an earlier)
WithMember(members, key, value) ==
    [k \in DOMAIN members \cup {key} |-> IF k = key THEN value ELSE members[k]]

\* the string tokens of the modelled JSON texts and the str each one denotes
StringTokens ==
    [t \in {"\"title\"", "\"content\"", "\"X\"", "\"Y\""} |->
        CASE t = "\"title\"" -> "title"
          [] t = "\"content\"" -> "content"
          [] t = "\"X\"" -> "X"
          [] t = "\"Y\"" -> "Y"]

JSONDecodeError == [raised |-> TRUE, exception |-> "JSONDecodeError"]
Decoded(value) == [raised |-> FALSE, value |-> value]

\* a scalar JSON value of one token
IsScalar(t) == t \in DOMAIN StringTokens \/ t = "null"
Scalar(t) == IF t = "null" THEN JNull ELSE JString(StringTokens[t])

RECURSIVE ParseMembers(_, _, _)
\* json.loads inside an object: tokens[i] starts a "key": value pair
ParseMembers(tokens, i, members) ==
    IF \/ i + 3 > Len(tokens)
       \/ tokens[i] \notin DOMAIN StringTokens
       \/ tokens[i + 1] # ":"
       \/ ~IsScalar(tokens[i + 2])
    THEN JSONDecodeError
    ELSE LET now == WithMember(members, StringTokens[tokens[i]],
                               Scalar(tokens[i + 2]))
         IN CASE tokens[i + 3] = "}" ->
                    IF i + 3 = Len(tokens) THEN Decoded(JObject(now))
                    ELSE JSONDecodeError
              [] tokens[i + 3] = "," -> ParseMembers(tokens, i + 4, now)
              [] OTHER -> JSONDecodeError

\* json.loads of a text: flat objects of scalar members, the empty array and
\* scalars are the documents told apart; every other text is no document
JsonLoads(tokens) ==
    CASE tokens = <<>> -> JSONDecodeError
      [] Len(tokens) = 1 /\ IsScalar(tokens[1]) -> Decoded(Scalar(tokens[1]))
      [] tokens = <<"[", "]">> -> Decoded(JArray(<<>>))
      [] tokens = <<"{", "}">> -> Decoded(JObject(EmptyMembers))
      [] Len(tokens) > 2 /\ tokens[1] = "{" ->
             ParseMembers(tokens, 2, EmptyMembers)
      [] OTHER -> JSONDecodeError

\* ------------------------------------------------------------------------
\* The OpenAI provider (services/ai_providers/openai_provider.py)
\* ------------------------------------------------------------------------

StringProperty(description) ==
    JObject([type |-> JString("string"), description |-> JString(description)])

\* three of the tool definitions of TELEGRAPH_TOOLS
TELEGRAPH_TOOLS ==
    << JObject([name |-> JString("create_page"),
                description |-> JString("Create a new Telegraph page with the given title and content. Content can be in Markdown or HTML format."),
                input_schema |-> JObject(
                    [type |-> JString("object"),
                     properties |-> JObject(
                         [title |-> StringProperty("The title of the page"),
                          content |-> StringProperty("The content of the page (Markdown or HTML)"),
                          author_name |-> StringProperty("Author name to display on the page")]),
                     required |-> JArray(<<JString("title"), JString("content")>>)])]),
       JObject([name |-> JString("get_page"),
                description |-> JString("Get the content of an existing Telegraph page."),
                input_schema |-> JObject(
                    [type |-> JString("object"),
                     properties |-> JObject(
                         [path |-> StringProperty("The path of the page to retrieve")]),
                     required |-> JArray(<<JString("path")>>)])]),
       JObject([name |-> JString("get_account_info"),
                description |-> JString("Get information about the current Telegraph account."),
                input_schema |-> JObject(
                    [type |-> JString("object"),
                     properties |-> JObject(EmptyMembers)])]) >>

\* convert_tools_format with the schema left under its MCP key
convert_tool_unrenamed(tool) ==
    JObject([type |-> JString("function"),
             function |-> JObject(
                 [name |-> tool.members["name"],
                  description |-> Get(tool, "description", JString("")),
                  input_schema |-> Get(tool, "input_schema",
                      JObject([type |-> JString("object"),
                               properties |-> JObject(EmptyMembers)]))])])

\* the body of the loop of convert_tools_format
convert_tool(tool) ==
    JObject([type |-> JString("function"),
             function |-> JObject(
                 [name |-> tool.members["name"],
                  description |-> Get(tool, "description", JString("")),
                  parameters |-> Get(tool, "input_schema",
                      JObject([type |-> JString("object"),
                               properties |-> JObject(EmptyMembers)]))])])

convert_tools_format(mcp_tools) ==
    JArray([i \in 1..Len(mcp_tools) |-> convert_tool(mcp_tools[i])])

\* the try/except of extract_tool_calls with the decode error handed on as None
input_dict_unguarded(arguments) ==
    IF "tokens" \in DOMAIN arguments
    THEN LET loaded == JsonLoads(arguments.tokens)
         IN IF loaded.raised THEN JNull ELSE loaded.value
    ELSE arguments

\* the try/except of extract_tool_calls: the parsed arguments of one call
input_dict(arguments) ==
    IF "tokens" \in DOMAIN arguments
    THEN LET loaded == JsonLoads(arguments.tokens)
         IN IF loaded.raised THEN JObject(EmptyMembers) ELSE loaded.value
    ELSE arguments

extract_tool_calls(resp) ==
    LET choices == Get(resp, "choices", JArray(<<>>)) IN
    IF Falsy(choices) THEN JNull
    ELSE LET message == Get(choices.items[1], "message", JObject(EmptyMembers))
             calls == Get(message, "tool_calls", JNull)
         IN IF Falsy(calls) THEN JNull
            ELSE JArray([i \in 1..Len(calls.items) |->
                     LET call == calls.items[i].members IN
                     JObject([id |-> call["id"],
                              name |-> call["function"].members["name"],
                              input |-> input_dict(
                                  call["function"].members["arguments"])])])

\* _response_to_dict of one choice of a completion
choice_dict(choice) ==
    LET message == [role |-> JString("assistant"), content |-> choice.content]
        calls == [i \in 1..Len(choice.tool_calls) |->
                     LET tc == choice.tool_calls[i] IN
                     JObject([id |-> JString(tc.id),
                              type |-> JString("function"),
                              function |-> JObject(
                                  [name |-> JString(tc.name),
                                   arguments |-> JText(tc.arguments)])])]
    IN JObject([message |->
                    JObject(IF choice.tool_calls # <<>>
                            THEN WithMember(message, "tool_calls", JArray(calls))
                            ELSE message),
                finish_reason |-> JString(choice.finish_reason)])

\* _response_to_dict (the counters created and usage are left out)
response_to_dict(completion) ==
    JObject([id |-> JString("chatcmpl-1"),
             model |-> JString("gpt-4o"),
             choices |-> JArray([i \in 1..Len(completion) |->
                                    choice_dict(completion[i])])])

\* the tool lists a chat request is made with
ToolLists ==
    UNION {[1..n -> {TELEGRAPH_TOOLS[i] : i \in DOMAIN TELEGRAPH_TOOLS}] :
           n \in 0..MaxTools}

\* the arguments texts a completion carries
ArgumentTexts ==
    { <<"{", "\"title\"", ":", "\"X\"", "}">>,
      <<"{", "\"title\"", ":", "\"X\"", ",", "\"content\"", ":", "\"Y\"", "}">>,
      <<"{", "}">>,
      <<"not", "json">>,
      <<"{", "\"title\"", ":", "\"X\"">>,
      <<>> }

CallNames == {"create_page", "get_page"}

\* the tool calls of one message: the n-th call has id call_n
CallLists ==
    UNION {{[i \in 1..n |->
                [id |-> IF i = 1 THEN "call_1" ELSE "call_" \o ToString(i),
                 name |-> names[i], arguments |-> texts[i]]] :
            names \in [1..n -> CallNames], texts \in [1..n -> ArgumentTexts]} :
           n \in 0..MaxCalls}

TextChoice ==
    [content |-> JString("Done."), tool_calls |-> <<>>, finish_reason |-> "stop"]

\* the completions the API answers with: no choice, one choice, or a choice
\* followed by a plain text choice
Completions ==
    {<<>>}
    \cup {<<[content |-> IF calls = <<>> THEN JString("Done.") ELSE JNull,
             tool_calls |-> calls,
             finish_reason |-> IF calls = <<>> THEN "stop" ELSE "tool_calls"]>> :
          calls \in CallLists}
    \cup {<<[content |-> JNull, tool_calls |-> calls,
             finish_reason |-> "tool_calls"], TextChoice>> :
          calls \in {c \in CallLists : Len(c) = 1}}

\* OpenAIProvider.chat(messages, tools) without streaming, as _get_ai_response
\* calls it once per turn of the conversation
OpenAIChat(tools, completion) ==
    LET converted_tools ==
            IF tools # <<>> THEN convert_tools_format(tools) ELSE JNull
        params == [model |-> JString("gpt-4o"),
                   messages |-> JArray(<<JObject([role |-> JString("user"),
                                                  content |-> JString("...")])>>)]
    IN /\ request = None
       /\ request' = [mcp_tools |-> tools,
                      params |-> JObject(IF ~Falsy(converted_tools)
                                         THEN WithMember(params, "tools", converted_tools)
                                         ELSE params)]
       /\ response' = response_to_dict(completion)
       /\ tool_calls' = None
       /\ UNCHANGED <<SYNTAX_PATTERNS, settings, glossary, input_text, typed,
                      marks, parser, returned, error, validation>>
       /\ UNCHANGED moreVars

\* provider.extract_tool_calls(response) on the response of the last chat
ExtractToolCalls ==
    /\ response # None
    /\ tool_calls = None
    /\ tool_calls' = [raised |-> FALSE, value |-> extract_tool_calls(response)]
    /\ UNCHANGED <<SYNTAX_PATTERNS, settings, glossary, input_text, typed,
                   marks, parser, returned, error, validation, request, response>>
    /\ UNCHANGED moreVars

\* _get_ai_response returns: the request, the response and the tool calls are
\* its local variables
ReturnResponse ==
    /\ tool_calls # None
    /\ request' = None
    /\ response' = None
    /\ tool_calls' = None
    /\ UNCHANGED <<SYNTAX_PATTERNS, settings, glossary, input_text, typed,
                   marks, parser, returned, error, validation>>
    /\ UNCHANGED moreVars

NextOpenAI ==
    \/ \E tools \in ToolLists, completion \in Completions :
          OpenAIChat(tools, completion)
    \/ ExtractToolCalls
    \/ ReturnResponse

\* one chat session with the OpenAI provider
SpecOpenAI == Init /\ [][NextOpenAI]_vars

RECURSIVE AllKeys(_)
\* every key of every dict inside a value
AllKeys(v) ==
    CASE v.kind = "object" ->
             DOMAIN v.members
             \cup UNION {AllKeys(v.members[k]) : k \in DOMAIN v.members}
      [] v.kind = "array" -> UNION {AllKeys(v.items[i]) : i \in DOMAIN v.items}
      [] OTHER -> {}

\* the tools of the request, as sent
SentTools == Get(request.params, "tools", JArray(<<>>))

\* C9: convert_tools_format maps the tools one-to-one and in order to
\* {type: "function", function: {name, description, parameters}} envelopes,
\* parameters being the tool's input schema unchanged, and no key input_schema
\* occurs anywhere in the result.
C9_ConvertToolsFormat ==
    request # None =>
        /\ Len(SentTools.items) = Len(request.mcp_tools)
        /\ \A i \in 1..Len(request.mcp_tools) :
              LET tool == request.mcp_tools[i].members
                  sent == SentTools.items[i]
              IN /\ sent.kind = "object"
                 /\ DOMAIN sent.members = {"type", "function"}
                 /\ sent.members["type"] = JString("function")
                 /\ sent.members["function"].kind = "object"
                 /\ DOMAIN sent.members["function"].members =
                        {"name", "description", "parameters"}
                 /\ sent.members["function"].members["name"] = tool["name"]
                 /\ sent.members["function"].members["description"] =
                        tool["description"]
                 /\ sent.members["function"].members["parameters"] =
                        tool["input_schema"]
        /\ "input_schema" \notin AllKeys(SentTools)

\* a request was made with get_account_info and then create_page
C9_Witness ==
    /\ request # None
    /\ Len(request.mcp_tools) = 2
    /\ request.mcp_tools[1].members["name"] = JString("get_account_info")
    /\ request.mcp_tools[2].members["name"] = JString("create_page")
    /\ Len(SentTools.items) = 2
    /\ "title" \in AllKeys(SentTools.items[2])

\* the tool calls of the first choice of the response, as received
ReceivedCalls ==
    LET choices == response.members["choices"].items IN
    IF choices = <<>> THEN <<>>
    ELSE Get(choices[1].members["message"], "tool_calls", JArray(<<>>)).items

ArgumentsOf(call) == call.members["function"].members["arguments"].tokens

claude_extract_tool_calls_any_stop(resp) ==
    LET content == Get(resp, "content", JArray(<<>>)).items
        uses == SelectSeq(content,
                    LAMBDA block : Get(block, "type", JNull) = JString("tool_use"))
        calls == [i \in 1..Len(uses) |->
                     JObject([id |-> uses[i].members["id"],
                              name |-> uses[i].members["name"],
                              input |-> uses[i].members["input"]])]
    IN IF calls # <<>> THEN JArray(calls) ELSE JNull

\* ClaudeProvider.extract_tool_calls
claude_extract_tool_calls(resp) ==
    IF Get(resp, "stop_reason", JNull) # JString("tool_use") THEN JNull
    ELSE LET content == Get(resp, "content", JArray(<<>>)).items
             uses == SelectSeq(content,
                         LAMBDA block :
                             Get(block, "type", JNull) = JString("tool_use"))
             calls == [i \in 1..Len(uses) |->
                          JObject([id |-> uses[i].members["id"],
                                   name |-> uses[i].members["name"],
                                   input |-> uses[i].members["input"]])]
         IN IF calls # <<>> THEN JArray(calls) ELSE JNull

\* the id GeminiProvider.extract_tool_calls generates for the i-th call,
\* counted from 0
GeminiCallId(i) == "call_" \o ToString(i - 1)

\* GeminiProvider.extract_tool_calls without the check for no function call
gemini_extract_tool_calls_unchecked(resp) ==
    LET function_calls == Get(resp, "function_calls", JArray(<<>>)) IN
    JArray([i \in 1..Len(function_calls.items) |->
               JObject([id |-> JString(GeminiCallId(i)),
                        name |-> function_calls.items[i].members["name"],
                        input |-> function_calls.items[i].members["args"]])])

\* GeminiProvider.extract_tool_calls
gemini_extract_tool_calls(resp) ==
    LET function_calls == Get(resp, "function_calls", JArray(<<>>)) IN
    IF Falsy(function_calls) THEN JNull
    ELSE JArray([i \in 1..Len(function_calls.items) |->
                    JObject([id |-> JString(GeminiCallId(i)),
                             name |-> function_calls.items[i].members["name"],
                             input |-> function_calls.items[i].members["args"]])])

\* ClaudeProvider.format_tool_result(tool_call_id, result)
claude_format_tool_result(tool_call_id, result) ==
    JObject([role |-> JString("user"),
             content |-> JArray(<<JObject([type |-> JString("tool_result"),
                                           tool_use_id |-> tool_call_id,
                                           content |-> result])>>)])

\* OpenAIProvider.format_tool_result with the id and the result interchanged
openai_format_tool_result_swapped(tool_call_id, result) ==
    JObject([role |-> JString("tool"),
             tool_call_id |-> result,
             content |-> tool_call_id])

\* OpenAIProvider.format_tool_result(tool_call_id, result)
openai_format_tool_result(tool_call_id, result) ==
    JObject([role |-> JString("tool"),
             tool_call_id |-> tool_call_id,
             content |-> result])

\* types.FunctionResponse(name=..., response=...)
FunctionResponse(name, resp) ==
    [kind |-> "FunctionResponse", name |-> name, response |-> resp]

\* GeminiProvider.format_tool_result naming the part after the call id
gemini_format_tool_result_by_id(tool_call_id, tool_name, result) ==
    JObject([role |-> JString("user"),
             parts |-> JArray(<<FunctionResponse(tool_call_id,
                                    JObject([result |-> result]))>>)])

\* GeminiProvider.format_tool_result(tool_call_id, tool_name, result)
gemini_format_tool_result(tool_call_id, tool_name, result) ==
    JObject([role |-> JString("user"),
             parts |-> JArray(<<FunctionResponse(tool_name,
                                    JObject([result |-> result]))>>)])

Providers == {"Claude", "OpenAI", "Gemini"}

\* the inputs tool calls carry
CallInputs == {JObject([title |-> JString("X")]), JObject(EmptyMembers)}

\* _content_block_to_dict of the i-th block of a Claude message: a text block,
\* a tool_use block, or a block of another type
ClaudeBlocks(i) ==
    {JObject([type |-> JString("text"), text |-> JString("Hello")]),
     JObject([type |-> JString("unknown")])}
    \cup {JObject([type |-> JString("tool_use"),
                   id |-> JString("toolu_" \o ToString(i)),
                   name |-> JString(name),
                   input |-> JObject(EmptyMembers)]) : name \in CallNames}

ClaudeStopReasons == {"end_turn", "tool_use", "max_tokens"}

\* ClaudeProvider._response_to_dict of the messages the API answers with (the
\* token counters of usage are left out)
ClaudeResponses ==
    {JObject([id |-> JString("msg_1"),
              type |-> JString("message"),
              role |-> JString("assistant"),
              content |-> JArray(blocks),
              model |-> JString("claude-sonnet-4-20250514"),
              stop_reason |-> JString(stop),
              stop_sequence |-> JNull]) :
        blocks \in UNION {{b \in [1..n -> UNION {ClaudeBlocks(i) : i \in 1..n}] :
                              \A i \in 1..n : b[i] \in ClaudeBlocks(i)} :
                          n \in 0..MaxBlocks},
        stop \in ClaudeStopReasons}

\* GeminiProvider._parse_response of the answers of the API: the text, if any,
\* and the function calls of the candidates
GeminiResponses ==
    {JObject([content |-> JArray(text),
              function_calls |-> JArray(calls),
              usage |-> JObject(EmptyMembers)]) :
        text \in {<<>>, <<JObject([type |-> JString("text"),
                                   text |-> JString("Hello")])>>},
        calls \in UNION {[1..n -> {JObject([name |-> JString(name), args |-> args]) :
                                      name \in CallNames, args \in CallInputs}] :
                         n \in 0..MaxCalls}}

\* OpenAIProvider._response_to_dict of the completions of the API
OpenAIResponses == {response_to_dict(completion) : completion \in Completions}

ResponsesOf(provider) ==
    CASE provider = "Claude" -> ClaudeResponses
      [] provider = "OpenAI" -> OpenAIResponses
      [] provider = "Gemini" -> GeminiResponses

\* the responses of the three providers
AllResponses == ClaudeResponses \cup OpenAIResponses \cup GeminiResponses

\* provider.extract_tool_calls(response) of the provider classes
ExtractOf(provider, resp) ==
    CASE provider = "Claude" -> claude_extract_tool_calls(resp)
      [] provider = "OpenAI" -> extract_tool_calls(resp)
      [] provider = "Gemini" -> gemini_extract_tool_calls(resp)

\* the ids, tool names and result texts format_tool_result is called with
ResultIds == {JString("call_1"), JString("toolu_1")}
ResultTexts == {JString("{'url': '/X'}"), JString("Error: boom"), JString("")}

\* a call of provider.extract_tool_calls(response)
CallExtractToolCalls(provider, resp) ==
    /\ provider_call = None
    /\ provider_call' = [op |-> "extract_tool_calls", provider |-> provider,
                         response |-> resp,
                         returned |-> ExtractOf(provider, resp)]
    /\ UNCHANGED notProviders

\* a call of format_tool_result with the parameters of the provider's method
CallFormatToolResult(provider, tool_call_id, tool_name, result) ==
    /\ provider_call = None
    /\ provider_call' =
          [op |-> "format_tool_result", provider |-> provider,
           tool_call_id |-> tool_call_id, tool_name |-> tool_name,
           result |-> result,
           returned |->
               CASE provider = "Claude" ->
                        claude_format_tool_result(tool_call_id, result)
                 [] provider = "OpenAI" ->
                        openai_format_tool_result(tool_call_id, result)
                 [] provider = "Gemini" ->
                        gemini_format_tool_result(tool_call_id, tool_name, result)]
    /\ UNCHANGED notProviders

\* the caller is done with what the method returned
ProviderCallReturns ==
    /\ provider_call # None
    /\ provider_call' = None
    /\ UNCHANGED notProviders

NextProviders ==
    \/ \E provider \in Providers :
          \E resp \in ResponsesOf(provider) : CallExtractToolCalls(provider, resp)
    \/ \E provider \in Providers, tool_call_id \in ResultIds,
          tool_name \in CallNames, result \in ResultTexts :
          CallFormatToolResult(provider, tool_call_id, JString(tool_name), result)
    \/ ProviderCallReturns

\* the provider classes, called as a library
SpecProviders == Init /\ [][NextProviders]_vars

\* the last provider call was extract_tool_calls of the provider
Extracted(provider) ==
    /\ provider_call # None
    /\ provider_call.op = "extract_tool_calls"
    /\ provider_call.provider = provider

\* the tool_use blocks of the Claude response of the last call, in content order
ToolUseBlocks ==
    SelectSeq(provider_call.response.members["content"].items,
              LAMBDA block : block.members["type"] = JString("tool_use"))

\* C11: ClaudeProvider.extract_tool_calls returns calls only when stop_reason is
\* "tool_use": then one {id, name, input} per tool_use block, in content order,
\* copied from the block, other blocks being ignored; for any other stop_reason
\* it returns no calls even if tool_use blocks are present.
C11_ClaudeExtract ==
    Extracted("Claude") =>
        LET stop == provider_call.response.members["stop_reason"]
            got == provider_call.returned
        IN /\ stop # JString("tool_use") => got = JNull
           /\ (stop = JString("tool_use") /\ ToolUseBlocks # <<>>) =>
                 /\ got.kind = "array"
                 /\ Len(got.items) = Len(ToolUseBlocks)
                 /\ \A i \in 1..Len(ToolUseBlocks) :
                       /\ got.items[i].members["id"] = ToolUseBlocks[i].members["id"]
                       /\ got.items[i].members["name"] =
                              ToolUseBlocks[i].members["name"]
                       /\ got.items[i].members["input"] =
                              ToolUseBlocks[i].members["input"]

\* a tool_use response with a text block between two tool_use blocks gave the
\* two calls
C11_Witness ==
    /\ Extracted("Claude")
    /\ provider_call.response.members["stop_reason"] = JString("tool_use")
    /\ Len(provider_call.response.members["content"].items) = 3
    /\ provider_call.response.members["content"].items[2].members["type"] =
           JString("text")
    /\ Len(ToolUseBlocks) = 2
    /\ provider_call.returned.kind = "array"
    /\ provider_call.returned.items[2].members["id"] = JString("toolu_3")

\* the response of the last extract_tool_calls carries no tool call
CarriesNoToolCall ==
    LET resp == provider_call.response IN
    CASE provider_call.provider = "Claude" -> ToolUseBlocks = <<>>
      [] provider_call.provider = "OpenAI" ->
             \/ resp.members["choices"].items = <<>>
             \/ "tool_calls" \notin
                    DOMAIN resp.members["choices"].items[1].members["message"].members
      [] provider_call.provider = "Gemini" ->
             resp.members["function_calls"].items = <<>>

\* C12: for each of the three providers extract_tool_calls never returns an
\* empty list: a response without tool call gives None, and a result that is
\* not None holds at least one call, each with exactly the keys id, name, input.
C12_NeverEmptyList ==
    \A provider \in Providers :
        Extracted(provider) =>
            LET got == provider_call.returned IN
            /\ got # JArray(<<>>)
            /\ CarriesNoToolCall => got = JNull
            /\ got # JNull =>
                  /\ got.kind = "array"
                  /\ Len(got.items) >= 1
                  /\ \A i \in 1..Len(got.items) :
                        /\ got.items[i].kind = "object"
                        /\ DOMAIN got.items[i].members = {"id", "name", "input"}

\* a Gemini response with text and no function call gave None
C12_Witness ==
    /\ Extracted("Gemini")
    /\ provider_call.response.members["function_calls"].items = <<>>
    /\ provider_call.response.members["content"].items # <<>>
    /\ provider_call.returned = JNull

\* the last provider call was format_tool_result of the provider
Formatted(provider) ==
    /\ provider_call # None
    /\ provider_call.op = "format_tool_result"
    /\ provider_call.provider = provider

\* C13: format_tool_result gives one message shape per provider with the id
\* and the result text unchanged: Claude a user message whose one content block
\* is {type: "tool_result", tool_use_id: id, content: result}; OpenAI
\* {role: "tool", tool_call_id: id, content: result}; Gemini a user message
\* with one function-response part named after the tool, carrying the result.
C13_FormatToolResult ==
    LET got == provider_call.returned IN
    /\ Formatted("Claude") =>
          /\ DOMAIN got.members = {"role", "content"}
          /\ got.members["role"] = JString("user")
          /\ Len(got.members["content"].items) = 1
          /\ LET block == got.members["content"].items[1] IN
             /\ DOMAIN block.members = {"type", "tool_use_id", "content"}
             /\ block.members["type"] = JString("tool_result")
             /\ block.members["tool_use_id"] = provider_call.tool_call_id
             /\ block.members["content"] = provider_call.result
    /\ Formatted("OpenAI") =>
          /\ DOMAIN got.members = {"role", "tool_call_id", "content"}
          /\ got.members["role"] = JString("tool")
          /\ got.members["tool_call_id"] = provider_call.tool_call_id
          /\ got.members["content"] = provider_call.result
    /\ Formatted("Gemini") =>
          /\ DOMAIN got.members = {"role", "parts"}
          /\ got.members["role"] = JString("user")
          /\ Len(got.members["parts"].items) = 1
          /\ LET part == got.members["parts"].items[1] IN
             /\ part.kind = "FunctionResponse"
             /\ part.name = provider_call.tool_name
             /\ part.response = JObject([result |-> provider_call.result])

\* the OpenAI formatter was given the id call_1 and an error text
C13_Witness ==
    /\ Formatted("OpenAI")
    /\ provider_call.tool_call_id = JString("call_1")
    /\ provider_call.result = JString("Error: boom")
    /\ provider_call.returned.members["content"] = JString("Error: boom")

\* ------------------------------------------------------------------------
\* The chat turn (components/ai_chat.py)
\* ------------------------------------------------------------------------

RECURSIVE Join(_, _)
\* sep.join(parts)
Join(sep, parts) ==
    IF parts = <<>> THEN ""
    ELSE IF Len(parts) = 1 THEN parts[1]
    ELSE parts[1] \o sep \o Join(sep, Tail(parts))

\* _extract_text_response returning the first text block only
extract_text_response_first(resp) ==
    LET content == Get(resp, "content", JArray(<<>>)) IN
    IF content.kind = "string" THEN content
    ELSE LET texts == SelectSeq(content.items,
                          LAMBDA item : Get(item, "type", JNull) = JString("text"))
         IN IF texts # <<>> THEN Get(texts[1], "text", JString(""))
            ELSE JString("No response generated.")

\* _extract_text_response
extract_text_response(resp) ==
    LET content == Get(resp, "content", JArray(<<>>)) IN
    IF content.kind = "string" THEN content
    ELSE LET texts == SelectSeq(content.items,
                          LAMBDA item : Get(item, "type", JNull) = JString("text"))
             text_parts == [i \in 1..Len(texts) |->
                               Get(texts[i], "text", JString("")).value]
         IN IF text_parts # <<>> THEN JString(Join("\n", text_parts))
            ELSE JString("No response generated.")

\* _build_system_prompt, its opening lines
build_system_prompt(g) ==
    "You are a helpful assistant that manages a Telegraph glossary.\n"
    \o "Current glossary has " \o ToString(Len(g)) \o " terms.\n"

\* _build_messages_for_ai
build_messages_for_ai(history) ==
    LET kept == SelectSeq(history,
                    LAMBDA msg : /\ msg.members["role"] \in
                                       {JString("user"), JString("assistant")}
                                 /\ Get(msg, "content", JString("")).kind = "string")
    IN [i \in 1..Len(kept) |->
           JObject([role |-> kept[i].members["role"],
                    content |-> Get(kept[i], "content", JString(""))])]

SystemMessage(g) ==
    JObject([role |-> JString("system"), content |-> JString(build_system_prompt(g))])

\* the messages of the first request of a turn
full_messages(provider, g, messages) ==
    IF Len(messages) = 1
    THEN << JObject([role |-> JString("user"),
                     content |-> JString(build_system_prompt(g) \o "\n\n"
                                         \o messages[1].members["content"].value)]) >>
    ELSE IF provider = "Claude" THEN messages
    ELSE <<SystemMessage(g)>> \o messages

\* the message of a chat_messages entry
ChatMessage(role, text) ==
    JObject([role |-> JString(role), content |-> text, display_content |-> text])

\* what mcp_client.call_tool_sync does with a call: it returns a value or raises
ToolOutcomes ==
    {[raised |-> FALSE, value |-> "{'ok': True}"],
     [raised |-> TRUE, message |-> "boom"]}

\* the loop body of _handle_tool_calls dropping a call that raised
append_result_dropping(done, tool_call, outcome) ==
    IF outcome.raised THEN done
    ELSE Append(done,
                [id |-> Get(tool_call, "id",
                            JString("call_" \o ToString(Len(done)))),
                 name |-> tool_call.members["name"],
                 result |-> JString(outcome.value)])

\* the loop body of _handle_tool_calls: the results after one more call
append_result(done, tool_call, outcome) ==
    Append(done,
           [id |-> Get(tool_call, "id", JString("call_" \o ToString(Len(done)))),
            name |-> tool_call.members["name"],
            result |-> IF outcome.raised
                       THEN JString("Error: " \o outcome.message)
                       ELSE JString(outcome.value)])

\* provider.format_tool_result(result["id"], result.get("name", ""),
\* result["result"]) as _handle_tool_calls calls it, with three arguments: the
\* methods of the Claude and OpenAI providers take two and raise TypeError
format_tool_result_call(provider, result) ==
    CASE provider = "Gemini" ->
             [raised |-> FALSE,
              value |-> gemini_format_tool_result(result.id, result.name,
                                                  result.result)]
      [] provider = "Claude" ->
             [raised |-> TRUE,
              message |-> "ClaudeProvider.format_tool_result() takes 3 positional arguments but 4 were given"]
      [] provider = "OpenAI" ->
             [raised |-> TRUE,
              message |-> "OpenAIProvider.format_tool_result() takes 3 positional arguments but 4 were given"]

Prompts == {JString("add the term X")}

\* the provider selectbox of _render_api_config
SelectProvider(provider) ==
    /\ pc = "AwaitingUserInput"
    /\ provider # ai_provider
    /\ ai_provider' = provider
    /\ UNCHANGED <<chat_messages, pc, requests, model_response, pending_calls,
                   results, dispatched, response_text>>
    /\ UNCHANGED notChat

\* the Clear Chat button of _render_api_config
ClearChat ==
    /\ pc = "AwaitingUserInput"
    /\ chat_messages # <<>>
    /\ chat_messages' = <<>>
    /\ UNCHANGED <<ai_provider, pc, requests, model_response, pending_calls,
                   results, dispatched, response_text>>
    /\ UNCHANGED notChat

\* _handle_chat_input with a prompt, and _get_ai_response up to the first
\* provider.chat, which the API answers
RequestModel(prompt, resp) ==
    LET history == Append(chat_messages, ChatMessage("user", prompt))
        messages == build_messages_for_ai(history)
    IN /\ pc = "AwaitingUserInput"
       /\ Len(chat_messages) < 2 * MaxTurns
       /\ resp \in ResponsesOf(ai_provider)
       /\ chat_messages' = history
       /\ requests' = <<full_messages(ai_provider, glossary, messages)>>
       /\ model_response' = resp
       /\ pending_calls' = <<>>
       /\ results' = <<>>
       /\ dispatched' = <<>>
       /\ response_text' = None
       /\ pc' = "RequestingModel"
       /\ UNCHANGED ai_provider
       /\ UNCHANGED notChat

\* _get_ai_response after the first provider.chat: extract_tool_calls, then
\* _handle_tool_calls if there are calls and _extract_text_response if not
CheckToolCalls ==
    LET calls == ExtractOf(ai_provider, model_response) IN
    /\ pc = "RequestingModel"
    /\ IF ~Falsy(calls)
       THEN /\ pending_calls' = calls.items
            /\ pc' = "ExecutingTools"
            /\ UNCHANGED response_text
       ELSE /\ response_text' = extract_text_response(model_response)
            /\ pc' = "Responding"
            /\ UNCHANGED pending_calls
    /\ UNCHANGED <<ai_provider, chat_messages, requests, model_response, results,
                   dispatched>>
    /\ UNCHANGED notChat

\* one round of the loop of _handle_tool_calls: the next call is executed
ExecuteTool(outcome) ==
    LET tool_call == pending_calls[Len(results) + 1] IN
    /\ pc = "ExecutingTools"
    /\ Len(results) < Len(pending_calls)
    /\ dispatched' = Append(dispatched,
                            [name |-> tool_call.members["name"],
                             input |-> Get(tool_call, "input",
                                           Get(tool_call, "arguments",
                                               JObject(EmptyMembers))),
                             outcome |-> outcome])
    /\ results' = append_result(results, tool_call, outcome)
    /\ UNCHANGED <<ai_provider, chat_messages, pc, requests, model_response,
                   pending_calls, response_text>>
    /\ UNCHANGED notChat

\* _handle_tool_calls after the loop: the results are formatted and appended
\* to the messages and the follow-up provider.chat is made, which the API
\* answers; an exception of the formatter ends _get_ai_response with its
\* "Error: ..." text
FollowUp(resp) ==
    LET messages == build_messages_for_ai(chat_messages)
        formatted == [i \in 1..Len(results) |->
                         format_tool_result_call(ai_provider, results[i])]
        follow_up_messages ==
            messages \o [i \in 1..Len(results) |-> formatted[i].value]
        final_messages ==
            IF ai_provider = "Claude" THEN follow_up_messages
            ELSE <<SystemMessage(glossary)>> \o follow_up_messages
    IN /\ pc = "ExecutingTools"
       /\ Len(results) = Len(pending_calls)
       /\ resp \in ResponsesOf(ai_provider)
       /\ IF formatted[1].raised
          THEN /\ response_text' = JString("Error: " \o formatted[1].message)
               /\ pc' = "Responding"
               /\ UNCHANGED <<requests, model_response>>
          ELSE /\ requests' = Append(requests, final_messages)
               /\ model_response' = resp
               /\ pc' = "RequestingModelWithResults"
               /\ UNCHANGED response_text
       /\ UNCHANGED <<ai_provider, chat_messages, pending_calls, results,
                      dispatched>>
       /\ UNCHANGED notChat

\* _handle_tool_calls returns _extract_text_response(final_response)
Respond ==
    /\ pc = "RequestingModelWithResults"
    /\ response_text' = extract_text_response(model_response)
    /\ pc' = "Responding"
    /\ UNCHANGED <<ai_provider, chat_messages, requests, model_response,
                   pending_calls, results, dispatched>>
    /\ UNCHANGED notChat

\* _handle_chat_input shows the response text and appends it to the history
FinishTurn ==
    /\ pc = "Responding"
    /\ chat_messages' = Append(chat_messages,
                               ChatMessage("assistant", response_text))
    /\ pc' = "AwaitingUserInput"
    /\ requests' = <<>>
    /\ model_response' = None
    /\ pending_calls' = <<>>
    /\ results' = <<>>
    /\ dispatched' = <<>>
    /\ response_text' = None
    /\ UNCHANGED ai_provider
    /\ UNCHANGED notChat

NextChat ==
    \/ \E provider \in Providers : SelectProvider(provider)
    \/ ClearChat
    \/ \E prompt \in Prompts, resp \in AllResponses : RequestModel(prompt, resp)
    \/ CheckToolCalls
    \/ \E outcome \in ToolOutcomes : ExecuteTool(outcome)
    \/ \E resp \in AllResponses : FollowUp(resp)
    \/ Respond
    \/ FinishTurn

\* a session opened with the default marking syntax
InitChat == Init /\ settings.marking_syntax = "<?>"

\* the AI chat tab of one session
SpecChat == InitChat /\ [][NextChat]_vars

\* C14: in _handle_tool_calls every tool call is dispatched exactly once, in
\* the order returned and without retry; a call that raises is recorded as
\* "Error: <message>" and the later calls still run, so the results have the
\* length and order of the calls whatever subset fails.
C14_EveryCallOnce ==
    /\ Len(dispatched) = Len(results)
    /\ Len(results) <= Len(pending_calls)
    /\ \A i \in 1..Len(results) :
          /\ dispatched[i].name = pending_calls[i].members["name"]
          /\ dispatched[i].input = pending_calls[i].members["input"]
          /\ results[i].id = pending_calls[i].members["id"]
          /\ results[i].name = pending_calls[i].members["name"]
          /\ results[i].result =
                 IF dispatched[i].outcome.raised
                 THEN JString("Error: " \o dispatched[i].outcome.message)
                 ELSE JString(dispatched[i].outcome.value)
    /\ (pc \in {"RequestingModelWithResults", "Responding"}
        /\ pending_calls # <<>>) => Len(results) = Len(pending_calls)

\* the loop is over two calls, of which the first raised and the second did not
C14_Witness ==
    /\ pc = "Responding"
    /\ Len(pending_calls) = 2
    /\ Len(results) = 2
    /\ dispatched[1].outcome.raised
    /\ ~dispatched[2].outcome.raised
    /\ results[1].result = JString("Error: boom")

RECURSIVE StringsIn(_)
\* every string inside a message
StringsIn(v) ==
    CASE v.kind = "string" -> {v}
      [] v.kind = "object" -> UNION {StringsIn(v.members[k]) : k \in DOMAIN v.members}
      [] v.kind = "array" -> UNION {StringsIn(v.items[i]) : i \in DOMAIN v.items}
      [] v.kind = "FunctionResponse" -> StringsIn(v.name) \cup StringsIn(v.response)
      [] OTHER -> {}

\* the messages of the follow-up request that come after the system message
\* and the prior conversation
ResultMessages ==
    LET prior == build_messages_for_ai(chat_messages)
        lead == IF ai_provider = "Claude" THEN 0 ELSE 1
    IN SubSeq(requests[2], lead + Len(prior) + 1, Len(requests[2]))

\* the messages of the follow-up request up to the tool results are the system
\* message, for a provider other than Claude, and the prior conversation
PriorKept ==
    LET prior == build_messages_for_ai(chat_messages)
        lead == IF ai_provider = "Claude" THEN 0 ELSE 1
    IN /\ Len(requests[2]) >= lead + Len(prior)
       /\ SubSeq(requests[2], lead + 1, lead + Len(prior)) = prior
       /\ lead = 1 => requests[2][1] = SystemMessage(glossary)

C16_AsStated ==
    pc = "Responding" =>
        IF pending_calls = <<>> THEN Len(requests) = 1
        ELSE /\ Len(results) = Len(pending_calls)
             /\ Len(requests) = 2

\* the response text of the turn came from _extract_text_response
TextExtracted ==
    /\ pc = "Responding"
    /\ pending_calls = <<>> \/ Len(requests) = 2

\* the texts of the text blocks at the top level of the response of the turn
TextBlocks ==
    LET content == Get(model_response, "content", JArray(<<>>)).items
        blocks == SelectSeq(content,
                      LAMBDA item : Get(item, "type", JNull) = JString("text"))
    IN [i \in 1..Len(blocks) |-> blocks[i].members["text"]]

\* C17 as stated: _extract_text_response returns the content when it is a
\* string, the first text block when it is a list of blocks, and the fallback
\* "No response generated." when there is no text.
C17_AsStated ==
    TextExtracted =>
        LET content == Get(model_response, "content", JArray(<<>>)) IN
        /\ content.kind = "string" => response_text = content
        /\ (content.kind = "array" /\ TextBlocks # <<>>) =>
              response_text = TextBlocks[1]
        /\ (content.kind = "array" /\ TextBlocks = <<>>) =>
              response_text = JString("No response generated.")

\* C17: _extract_text_response returns the content when it is a string, the
\* texts of all text blocks joined by newlines when it is a list of blocks, and
\* the fallback "No response generated." when the list holds no text block or
\* the response has no content at its top level; it never raises.
C17_ExtractText ==
    TextExtracted =>
        LET content == Get(model_response, "content", JArray(<<>>)) IN
        /\ response_text.kind = "string"
        /\ content.kind = "string" => response_text = content
        /\ (content.kind = "array" /\ Len(TextBlocks) = 1) =>
              response_text = TextBlocks[1]
        /\ (content.kind = "array" /\ Len(TextBlocks) = 2) =>
              response_text =
                  JString(TextBlocks[1].value \o "\n" \o TextBlocks[2].value)
        /\ (content.kind = "array" /\ TextBlocks # <<>>) =>
              response_text =
                  JString(Join("\n", [i \in 1..Len(TextBlocks) |->
                                         TextBlocks[i].value]))
        /\ (content.kind = "array" /\ TextBlocks = <<>>) =>
              response_text = JString("No response generated.")
        /\ "content" \notin DOMAIN model_response.members =>
              response_text = JString("No response generated.")

\* a Claude response with two text blocks around a block of another type was
\* answered with both texts
C17_Witness ==
    /\ TextExtracted
    /\ ai_provider = "Claude"
    /\ Len(TextBlocks) = 2
    /\ Len(model_response.members["content"].items) = 3
    /\ response_text = JString("Hello\nHello")

\* a turn with the OpenAI provider, whose response holds the text "Done.",
\* ended with the fallback text
OpenAITextLost ==
    /\ TextExtracted
    /\ ai_provider = "OpenAI"
    /\ model_response.members["choices"].items[1].members["message"].members["content"]
           = JString("Done.")
    /\ response_text = JString("No response generated.")

----------------------------------------------------------------------------
\* pydantic_ai_service: streaming a turn through a worker thread and a queue

\* stream_types.StreamEvent
StreamEvent(type, data) == [type |-> type, data |-> data]

\* a text chunk of result.stream_text()
Chunk(text) == [chunk |-> text]

\* the two streaming calls: _run_event_streaming_in_thread ("events") and
\* _run_streaming_in_thread ("text")
Variants == {"events", "text"}

\* what the agent can stream as its n-th item: tool events and text deltas in
\* the event stream, text chunks in the text stream
AgentItems(variant, n) ==
    IF variant = "events"
    THEN { StreamEvent("tool_call", [tool_call_id |-> "call" \o ToString(n)]),
           StreamEvent("tool_result", [tool_call_id |-> "call" \o ToString(n)]),
           StreamEvent("text_delta", [delta |-> "chunk" \o ToString(n)]) }
    ELSE { Chunk("chunk" \o ToString(n)) }

\* every item the agent can stream
AllAgentItems ==
    UNION { AgentItems(variant, n) : variant \in Variants, n \in 1..(MaxEvents + 1) }

\* the seconds a queue.get of the consuming generator waits at most
queue_get_timeout_short(variant) == IF variant = "events" THEN 60 ELSE 30

queue_get_timeout(variant) == IF variant = "events" THEN 120 ELSE 60

\* queue.Queue.get on a queue that holds an item: the item and what is left
queue_get_lifo(q) == [item |-> q[Len(q)], rest |-> SubSeq(q, 1, Len(q) - 1)]

queue_get(q) == [item |-> Head(q), rest |-> Tail(q)]

\* what the generator yields when the queue stayed empty for the timeout
TimeoutItem(variant) ==
    IF variant = "events"
    THEN StreamEvent("error", [message |-> "Streaming timeout"])
    ELSE Chunk("Error: Streaming timeout")

\* an exception, by what str() makes of it
Exception(message) == [message |-> message]

\* what the generator yields for the exception e kept in error_holder
HolderItem(variant, e) ==
    IF variant = "events"
    THEN StreamEvent("error", [message |-> e.message])
    ELSE Chunk("Error: " \o e.message)

\* the seconds by which a wait on the empty queue is observed to advance
Ticks == {30, 60}

\* the generator is entered: the queue and error_holder are created and the
\* one worker thread is started
StartStream(variant) ==
    /\ consumer_pc = "idle"
    /\ stream' = variant
    /\ queue' = <<>>
    /\ produced' = <<>>
    /\ error_holder' = None
    /\ threads' = threads + 1
    /\ worker_pc' = "running"
    /\ consumer_pc' = "draining"
    /\ waited' = 0
    /\ yielded' = <<>>
    /\ UNCHANGED notStream

\* the worker puts one streamed item on the queue
WorkerPut(item) ==
    /\ worker_pc = "running"
    /\ Len(produced) < MaxEvents
    /\ item \in AgentItems(stream, Len(produced) + 1)
    /\ queue' = Append(queue, item)
    /\ produced' = Append(produced, item)
    /\ UNCHANGED <<stream, threads, worker_pc, error_holder, consumer_pc,
                   waited, yielded>>
    /\ UNCHANGED notStream

\* full_text keeping only the last chunk
full_text_last(events) ==
    LET deltas == SelectSeq(events, LAMBDA e : e # None /\ e.type = "text_delta")
    IN IF deltas = <<>> THEN "" ELSE deltas[Len(deltas)].data.delta

\* full_text of _async_events_to_queue after the events put so far: every
\* chunk was added to it when its TEXT_DELTA event was put
full_text(events) ==
    LET deltas == SelectSeq(events, LAMBDA e : e # None /\ e.type = "text_delta")
    IN Join("", [i \in 1..Len(deltas) |-> deltas[i].data.delta])

\* the agent's stream ends. The event stream puts the DONE event and, in its
\* finally block, None: two consecutive statements with no await between
\* them, so no wait of the consumer on the empty queue comes between the two
\* puts. The text stream puts nothing; its finally block is next
WorkerDone ==
    /\ worker_pc = "running"
    /\ worker_pc' = IF stream = "events" THEN "ended" ELSE "finally"
    /\ LET puts == IF stream = "events"
                   THEN <<StreamEvent("done", [text |-> full_text(produced)]),
                          None>>
                   ELSE <<>>
       IN  /\ queue' = queue \o puts
           /\ produced' = produced \o puts
    /\ UNCHANGED <<stream, threads, error_holder, consumer_pc, waited, yielded>>
    /\ UNCHANGED notStream

\* the agent raises: the event stream catches it, puts an ERROR event and, in
\* its finally block, None; the text stream lets it pass through its finally
\* block
WorkerRaises ==
    /\ worker_pc = "running"
    /\ worker_pc' = IF stream = "events" THEN "ended" ELSE "finally_raising"
    /\ LET puts == IF stream = "events"
                   THEN <<StreamEvent("error", [message |-> "boom"]), None>>
                   ELSE <<>>
       IN  /\ queue' = queue \o puts
           /\ produced' = produced \o puts
    /\ UNCHANGED <<stream, threads, error_holder, consumer_pc, waited, yielded>>
    /\ UNCHANGED notStream

\* finally: chunk_queue.put(None) of the text stream
WorkerFinally ==
    /\ worker_pc \in {"finally", "finally_raising"}
    /\ worker_pc' = IF worker_pc = "finally" THEN "ended" ELSE "except"
    /\ queue' = Append(queue, None)
    /\ produced' = Append(produced, None)
    /\ UNCHANGED <<stream, threads, error_holder, consumer_pc, waited, yielded>>
    /\ UNCHANGED notStream

\* run_async: except Exception as e
RunAsyncExcept ==
    /\ worker_pc = "except"
    /\ worker_pc' = "ended"
    /\ error_holder' = Exception("boom")
    /\ queue' = Append(queue, None)
    /\ produced' = Append(produced, None)
    /\ UNCHANGED <<stream, threads, consumer_pc, waited, yielded>>
    /\ UNCHANGED notStream

\* event_queue.get returns an item: None ends the loop, anything else is
\* yielded
QueueGet ==
    /\ consumer_pc = "draining"
    /\ queue # <<>>
    /\ LET got == queue_get(queue)
       IN  /\ queue' = got.rest
           /\ IF got.item = None
              THEN /\ consumer_pc' = "joining"
                   /\ UNCHANGED yielded
              ELSE /\ yielded' = Append(yielded, got.item)
                   /\ UNCHANGED consumer_pc
    /\ waited' = 0
    /\ UNCHANGED <<stream, threads, worker_pc, produced, error_holder>>
    /\ UNCHANGED notStream

\* time passes while event_queue.get waits on the empty queue
Tick(seconds) ==
    /\ consumer_pc = "draining"
    /\ queue = <<>>
    /\ waited < queue_get_timeout(stream)
    /\ waited' = IF waited + seconds < queue_get_timeout(stream)
                 THEN waited + seconds
                 ELSE queue_get_timeout(stream)
    /\ UNCHANGED <<stream, threads, worker_pc, queue, produced, error_holder,
                   consumer_pc, yielded>>
    /\ UNCHANGED notStream

\* except queue.Empty: the timeout error is yielded and the loop ends
QueueEmpty ==
    /\ consumer_pc = "draining"
    /\ queue = <<>>
    /\ waited = queue_get_timeout(stream)
    /\ yielded' = Append(yielded, TimeoutItem(stream))
    /\ consumer_pc' = "joining"
    /\ UNCHANGED <<stream, threads, worker_pc, queue, produced, error_holder,
                   waited>>
    /\ UNCHANGED notStream

\* thread.join(timeout=5) returns, whether the worker has ended or not
JoinThread ==
    /\ consumer_pc = "joining"
    /\ consumer_pc' = "checking"
    /\ UNCHANGED <<stream, threads, worker_pc, queue, produced, error_holder,
                   waited, yielded>>
    /\ UNCHANGED notStream

\* if error_holder[0]: yield the error; the generator is exhausted
CheckErrorHolder ==
    /\ consumer_pc = "checking"
    /\ consumer_pc' = "done"
    /\ yielded' = IF error_holder # None
                  THEN Append(yielded, HolderItem(stream, error_holder))
                  ELSE yielded
    /\ UNCHANGED <<stream, threads, worker_pc, queue, produced, error_holder,
                   waited>>
    /\ UNCHANGED notStream

\* the turn is over: the generator, its queue and its error_holder are dropped
\* (a worker that still runs keeps its own references to them)
StreamReturns ==
    /\ consumer_pc = "done"
    /\ stream' = "none"
    /\ threads' = 0
    /\ worker_pc' = "none"
    /\ queue' = <<>>
    /\ produced' = <<>>
    /\ error_holder' = None
    /\ consumer_pc' = "idle"
    /\ waited' = 0
    /\ yielded' = <<>>
    /\ UNCHANGED notStream

NextStream ==
    \/ \E variant \in Variants : StartStream(variant)
    \/ \E item \in AllAgentItems : WorkerPut(item)
    \/ WorkerDone
    \/ WorkerRaises
    \/ WorkerFinally
    \/ RunAsyncExcept
    \/ QueueGet
    \/ \E seconds \in Ticks : Tick(seconds)
    \/ QueueEmpty
    \/ JoinThread
    \/ CheckErrorHolder
    \/ StreamReturns

\* the streaming calls, with nothing promised about their scheduling
SpecStream == InitChat /\ [][NextStream]_vars

\* the streaming calls when the consuming generator keeps running: its waits
\* on the queue end, by an item or by the timeout, and time passes while it
\* waits; the worker is promised nothing and may stay silent for ever
SpecStreamFair ==
    /\ InitChat
    /\ [][NextStream]_vars
    /\ WF_vars(QueueGet)
    /\ WF_vars(\E seconds \in Ticks : Tick(seconds))
    /\ WF_vars(QueueEmpty)
    /\ WF_vars(JoinThread)
    /\ WF_vars(CheckErrorHolder)

\* what the consuming generator has taken off the queue so far
Taken == SubSeq(produced, 1, Len(produced) - Len(queue))

NotSentinel(item) == item # None

\* the items the generator makes itself: the timeout error and the error for
\* the exception in error_holder
ConsumerItems == {TimeoutItem(stream), HolderItem(stream, Exception("boom"))}

\* C18: a streaming call has exactly one worker thread, and that worker alone
\* puts on the call's queue; the generator yields the worker's items in the
\* order they were put, a prefix of what was put, and takes nothing off the
\* queue after the None that ends the stream
C18_OneWorkerFifo ==
    IF consumer_pc = "idle"
    THEN threads = 0 /\ produced = <<>> /\ yielded = <<>>
    ELSE /\ threads = 1
         /\ produced = Taken \o queue
         /\ \A i \in 1..Len(produced) : produced[i] # TimeoutItem(stream)
         /\ \A i \in 1..Len(yielded) : yielded[i] # None
         /\ \A i \in 1..Len(Taken) :
               Taken[i] = None => i = Len(Taken) /\ consumer_pc # "draining"
         /\ LET fromWorker == SelectSeq(Taken, NotSentinel)
                k == Len(fromWorker)
            IN  /\ k <= Len(yielded)
                /\ SubSeq(yielded, 1, k) = fromWorker
                /\ fromWorker = SubSeq(produced, 1, k)
                /\ \A i \in (k + 1)..Len(yielded) : yielded[i] \in ConsumerItems

\* an event stream ended at the None after two streamed events and the DONE
\* event, all three yielded in the order they were put, while the worker had
\* put them before the generator took the first
C18_Witness ==
    /\ consumer_pc = "done"
    /\ stream = "events"
    /\ Len(produced) = MaxEvents + 2
    /\ produced[MaxEvents + 2] = None
    /\ yielded = SubSeq(produced, 1, MaxEvents + 1)
    /\ yielded[1].type = "tool_call"
    /\ yielded[MaxEvents + 1].type = "done"

\* the generator's wait on the queue has timed out in this streaming call
TimedOut ==
    /\ consumer_pc # "idle"
    /\ \E i \in 1..Len(yielded) : yielded[i] = TimeoutItem(stream)

\* how many items the generator has taken off the queue
TakenCount == Len(produced) - Len(queue)

\* C19: a wait on the queue times out after 120 seconds in the event stream
\* and after 60 seconds in the text stream; the generator then has yielded
\* exactly one timeout error, has left its loop and takes nothing more off
\* the queue, whatever the worker puts there; no step of the generator stops
\* the worker; and a generator that has started comes to its end
C19_TimeoutEndsStream ==
    /\ [](TimedOut =>
            /\ Cardinality({i \in 1..Len(yielded) :
                               yielded[i] = TimeoutItem(stream)}) = 1
            /\ consumer_pc \in {"joining", "checking", "done"}
            /\ stream = "events" => waited = 120
            /\ stream = "text" => waited = 60)
    /\ [][(TimedOut /\ consumer_pc' # "idle") =>
            /\ TakenCount' = TakenCount
            /\ \/ yielded' = yielded
               \/ /\ consumer_pc = "checking"
                  /\ error_holder # None
                  /\ yielded' = Append(yielded, HolderItem(stream, error_holder))]_vars
    /\ [][(consumer_pc' # consumer_pc /\ consumer_pc \notin {"idle", "done"}) =>
            worker_pc' = worker_pc]_vars
    /\ (consumer_pc = "draining") ~> (consumer_pc = "done")

\* the event stream timed out after one event was yielded; the generator
\* ended while the worker went on, and what the worker put afterwards, the
\* None included, is still on the queue
C19_Witness ==
    /\ TimedOut
    /\ stream = "events"
    /\ consumer_pc = "done"
    /\ worker_pc = "ended"
    /\ Len(yielded) = 2
    /\ yielded[2] = TimeoutItem("events")
    /\ Len(queue) >= 2
    /\ queue[Len(queue)] = None

\* the text stream timed out, the worker raised before the generator looked at
\* error_holder, and the generator yielded the timeout error and then the
\* error of the exception
ErrorAfterTimeout ==
    /\ TimedOut
    /\ stream = "text"
    /\ consumer_pc = "done"
    /\ yielded = <<TimeoutItem("text"), HolderItem("text", Exception("boom"))>>

----------------------------------------------------------------------------
\* telegraph_service.update_term_page and glossary_manager._update_term

\* TelegraphService._escape_html on one character
EscapeChar(c) ==
    CASE c = "&" -> <<"&", "a", "m", "p", ";">>
      [] c = "<" -> <<"&", "l", "t", ";">>
      [] c = ">" -> <<"&", "g", "t", ";">>
      [] c = "\"" -> <<"&", "q", "u", "o", "t", ";">>
      [] OTHER -> <<c>>

\* TelegraphService._escape_html
escape_html(text) == Concat([i \in 1..Len(text) |-> EscapeChar(text[i])])

\* an opening or closing HTML tag
Tag(name) == <<"<">> \o name \o <<">">>

\* the html_content update_term_page sends to edit_page
html_content(term, definition, is_html) ==
    IF is_html
    THEN Tag(<<"h", "3">>) \o escape_html(term) \o Tag(<<"/", "h", "3">>)
         \o <<"\n">> \o definition
    ELSE Tag(<<"h", "3">>) \o escape_html(term) \o Tag(<<"/", "h", "3">>)
         \o <<"\n">> \o Tag(<<"p">>) \o escape_html(definition)
         \o Tag(<<"/", "p">>)

\* the characters the entities of _escape_html stand for
Entities == {"&", "<", ">", "\""}

RECURSIVE HtmlText(_)
\* the text of the content nodes Telegraph keeps for an html_content: tags
\* dropped, entities decoded
HtmlText(html) ==
    IF html = <<>> THEN <<>>
    ELSE IF Head(html) = "<" /\ \E i \in 1..Len(html) : html[i] = ">"
    THEN LET close == CHOOSE i \in 1..Len(html) :
                         /\ html[i] = ">"
                         /\ \A j \in 1..(i - 1) : html[j] # ">"
         IN  HtmlText(SubSeq(html, close + 1, Len(html)))
    ELSE IF \E c \in Entities : StartsAt(html, 1, EscapeChar(c))
    THEN LET c == CHOOSE d \in Entities : StartsAt(html, 1, EscapeChar(d))
         IN  <<c>> \o HtmlText(SubSeq(html, Len(EscapeChar(c)) + 1, Len(html)))
    ELSE <<Head(html)>> \o HtmlText(Tail(html))

\* str(content) of the page fetched by get_page, for a page with this text
content_str(text) == <<"[", "'">> \o text \o <<"'", "]">>

\* definition[:50] if len(definition) >= 50 else definition
check_text(definition) ==
    IF Len(definition) >= 50 THEN SubSeq(definition, 1, 50) ELSE definition

\* the spot-check finds the definition, raw or escaped, in the fetched page
spot_check(text, definition) ==
    \/ Contains(content_str(text), check_text(definition))
    \/ Contains(content_str(text), escape_html(check_text(definition)))

\* what client.edit_page does: the page takes the new content, or the call
\* returns and the page keeps its old content, or the call raises
EditOutcomes == {"applied", "ignored", "raises"}

\* TelegraphService.update_term_page on a page with text pg: what it raises
\* and the text of the page afterwards; fetched says whether get_page got the
\* page (it returns None when the request fails)
update_term_page(pg, term, definition, is_html, outcome, fetched) ==
    LET after == IF outcome = "applied"
                 THEN HtmlText(html_content(term, definition, is_html))
                 ELSE pg
    IN  IF outcome = "raises"
        THEN [raised |-> "TelegraphException", edited |-> FALSE, page |-> pg]
        ELSE IF ~is_html /\ fetched /\ ~spot_check(after, definition)
        THEN [raised |-> "ValueError", edited |-> TRUE, page |-> after]
        ELSE [raised |-> "none", edited |-> TRUE, page |-> after]

\* the term under edit
EditedTerm == <<"a">>

\* a definition longer than the 50 characters of the spot-check
LongDefinition == [i \in 1..51 |-> IF i = 51 THEN "c" ELSE "b"]

\* the definitions update_term_page is called with as plain text
Definitions == {<<"b">>, <<"c">>, <<"b", "&", "c">>, LongDefinition}

\* the HTML the editor of the glossary manager hands to _update_term
EditorHtml == {Tag(<<"p">>) \o escape_html(d) \o Tag(<<"/", "p">>) :
                  d \in {<<"b">>, <<"c">>, <<"b", "&", "c">>}}

\* the record of an update that has just been made
UpdateRecord(by, definition, is_html, fetched, call) ==
    [by |-> by, definition |-> definition, is_html |-> is_html,
     fetched |-> fetched, raised |-> call.raised, edited |-> call.edited,
     entry_before |-> entry]

\* TelegraphService.update_term_page called on the page of the term
UpdateTermPage(definition, is_html, outcome, fetched) ==
    /\ update = None
    /\ definition \in (IF is_html THEN EditorHtml ELSE Definitions)
    /\ LET call == update_term_page(page, EditedTerm, definition, is_html,
                                    outcome, fetched)
       IN  /\ page' = call.page
           /\ update' = UpdateRecord("update_term_page", definition, is_html,
                                     fetched, call)
    /\ UNCHANGED <<entry, shown>>
    /\ UNCHANGED notTerm

\* glossary_manager._update_term for a term that has a page, the term's name
\* kept: update_term_page with is_html=True, then the session entry, or the
\* messages of the two except clauses
UpdateTerm(html, outcome, fetched) ==
    /\ update = None
    /\ html \in EditorHtml
    /\ LET call == update_term_page(page, EditedTerm, html, TRUE, outcome,
                                    fetched)
       IN  /\ page' = call.page
           /\ update' = UpdateRecord("_update_term", html, TRUE, fetched, call)
           /\ CASE call.raised = "none" ->
                     /\ entry' = [entry EXCEPT !.definition_html = html]
                     /\ shown' = {"Updated 'a'!"}
                [] call.raised = "ValueError" ->
                     /\ shown' = {"Update verification failed",
                                  "Tip: Try deleting this term and creating it again."}
                     /\ UNCHANGED entry
                [] OTHER ->
                     /\ shown' = {"Failed to update term"}
                     /\ UNCHANGED entry
    /\ UNCHANGED notTerm

\* the script run that made the update is over
UpdateReturns ==
    /\ update # None
    /\ update' = None
    /\ shown' = {}
    /\ UNCHANGED <<page, entry>>
    /\ UNCHANGED notTerm

NextTerm ==
    \/ \E definition \in Definitions \cup EditorHtml, is_html \in BOOLEAN,
          outcome \in EditOutcomes, fetched \in BOOLEAN :
          UpdateTermPage(definition, is_html, outcome, fetched)
    \/ \E html \in EditorHtml, outcome \in EditOutcomes, fetched \in BOOLEAN :
          UpdateTerm(html, outcome, fetched)
    \/ UpdateReturns

\* edits of one term page, through the service and through the glossary manager
SpecTerm == InitChat /\ [][NextTerm]_vars

\* the text the page is expected to hold after the update
ExpectedText ==
    IF update.is_html THEN HtmlText(update.definition) ELSE update.definition

\* C20: after an edit of a term page whose freshly fetched page does not hold
\* the expected definition text, the update has failed with the verification
\* error (the ValueError, not the generic exception), and in the glossary
\* manager the 'delete and recreate' tip is shown and the session entry is as
\* it was
C20_AsStated ==
    (/\ update # None
     /\ update.edited
     /\ update.fetched
     /\ ~spot_check(page, ExpectedText))
    => /\ update.raised = "ValueError"
       /\ update.by = "_update_term" =>
             /\ "Tip: Try deleting this term and creating it again." \in shown
             /\ entry = update.entry_before

\* the glossary manager edited the term, the page kept its old text, and the
\* update was taken as made: no tip, and the session entry holds the new HTML
ManagerUnverified ==
    /\ update # None
    /\ update.by = "_update_term"
    /\ update.edited
    /\ ~spot_check(page, ExpectedText)
    /\ update.raised = "none"
    /\ shown = {"Updated 'a'!"}
    /\ entry # update.entry_before

\* update_term_page with plain text verifies: when the fetched page does not
\* hold the definition, it raises the ValueError
PlainTextVerified ==
    (/\ update # None
     /\ update.by = "update_term_page"
     /\ ~update.is_html
     /\ update.edited
     /\ update.fetched
     /\ ~spot_check(page, ExpectedText))
    => update.raised = "ValueError"

\* the tip of _update_term is never shown
TipNeverShown ==
    "Tip: Try deleting this term and creating it again." \notin shown

----------------------------------------------------------------------------
\* glossary_manager: _add_term, _update_term, _delete_term, the sync from the
\* index page, and the tools of the AI chat that write pages

\* ord() of the characters of the terms
CodePoint(c) ==
    CASE c = " " -> 32 [] c = "A" -> 65 [] c = "B" -> 66
      [] c = "a" -> 97 [] c = "b" -> 98 [] OTHER -> 99

RECURSIVE StrLess(_, _)
\* s < t for Python strings
StrLess(s, t) ==
    IF t = <<>> THEN FALSE
    ELSE IF s = <<>> THEN TRUE
    ELSE IF Head(s) = Head(t) THEN StrLess(Tail(s), Tail(t))
    ELSE CodePoint(Head(s)) < CodePoint(Head(t))

\* del glossary[key]
dict_del(g, key) == SelectSeq(g, LAMBDA e : e.term # key)

\* glossary[key] = value that always appends
dict_set_appending(g, key, value) == Append(g, value)

\* glossary[key] = value: an existing key keeps its place, a new key goes last
dict_set(g, key, value) ==
    IF key \in Keys(g)
    THEN [i \in 1..Len(g) |-> IF g[i].term = key THEN value ELSE g[i]]
    ELSE Append(g, value)

RECURSIVE sorted_items(_)
\* sorted(glossary.items())
sorted_items(g) ==
    IF g = <<>> THEN <<>>
    ELSE LET first == CHOOSE e \in ToSet(g) :
                         \A f \in ToSet(g) : f.term = e.term \/ StrLess(e.term, f.term)
         IN  <<first>> \o sorted_items(dict_del(g, first.term))

\* the entry _add_term and _update_term store for a term
GlossaryEntry(term, definition, path) ==
    [term |-> term, definition |-> definition, telegraph_path |-> path,
     telegraph_url |-> PageUrl(path)]

\* _generate_index_html: the metadata of the index page
generate_index(g) == [terms |-> sorted_items(g)]

RECURSIVE dict_of_terms(_)
\* {t["term"]: t for t in terms if "term" in t}
dict_of_terms(terms) ==
    IF terms = <<>> THEN <<>>
    ELSE LET rest == dict_of_terms(SubSeq(terms, 1, Len(terms) - 1))
             t == terms[Len(terms)]
         IN  IF "term" \in DOMAIN t THEN dict_set(rest, t.term, t) ELSE rest

\* TelegraphService.load_glossary_from_index
load_glossary_from_index(content, fetched) ==
    IF ~fetched THEN <<>>
    ELSE IF "terms" \in DOMAIN content THEN dict_of_terms(content.terms)
    ELSE <<>>

\* the definitions typed into the editor of the manager
EditorContents == {"<p>b</p>", "<p>c</p>"}

\* the path of the index page in the configuration
IndexPath == <<"i", "n", "d", "e", "x">>

\* the paths a tool call of the model may name
ToolPaths == {IndexPath, <<"a">>, <<>>}

\* the contents a tool call of the model may write: plain text, or a page
\* with the JSON metadata of an index, where terms may repeat or lack a name
ToolContents ==
    { [text |-> "Hello"],
      [terms |-> << GlossaryEntry(<<"A">>, "<p>b</p>", <<"A">>),
                    [definition |-> "<p>c</p>"],
                    GlossaryEntry(<<"a">>, "<p>b</p>", <<"a">>),
                    GlossaryEntry(<<"A">>, "<p>c</p>", <<"a">>) >>] }

\* the index page holds the session glossary: a write of the index page is
\* let fail only then, so that the page is never more than one operation behind
IndexCurrent == index_page = generate_index(glossary)

\* _update_index_page: create_index_page, whose failure only shows a warning
update_index_page(g, index_ok) ==
    IF index_ok THEN generate_index(g) ELSE index_page

\* _add_term on the session glossary g: the message it ends with and the
\* glossary it leaves; raises says that create_term_page raised
add_term(g, term, definition, raises) ==
    IF term \in Keys(g)
    THEN [result |-> "already exists", glossary |-> g]
    ELSE IF raises
    THEN [result |-> "Failed to add term", glossary |-> g]
    ELSE [result |-> "Added",
          glossary |-> dict_set(g, term, GlossaryEntry(term, definition, term))]

\* _update_term deleting the old key before the page is updated
update_term_deleting_first(g, old_term, new_term, definition, outcome) ==
    LET data == Entry(g, old_term)
        call == update_term_page(<<>>, new_term, <<>>, TRUE, outcome, TRUE)
        removed == IF old_term # new_term THEN dict_del(g, old_term) ELSE g
    IN  IF call.raised = "none"
        THEN [result |-> "Updated",
              glossary |-> dict_set(removed, new_term,
                                    GlossaryEntry(new_term, definition,
                                                  data.telegraph_path))]
        ELSE [result |-> "Failed to update term", glossary |-> removed]

\* _update_term on the session glossary g, for the term old_term of a card
\* and the name new_term of the form: the message it ends with and the
\* glossary it leaves; outcome is what client.edit_page does
update_term(g, old_term, new_term, definition, outcome) ==
    LET data == Entry(g, old_term)
        call == update_term_page(<<>>, new_term, <<>>, TRUE, outcome, TRUE)
        removed == IF old_term # new_term THEN dict_del(g, old_term) ELSE g
    IN  IF call.raised = "none"
        THEN [result |-> "Updated",
              glossary |-> dict_set(removed, new_term,
                                    GlossaryEntry(new_term, definition,
                                                  data.telegraph_path))]
        ELSE [result |-> IF call.raised = "ValueError"
                         THEN "Update verification failed"
                         ELSE "Failed to update term",
              glossary |-> g]

\* _add_term
ManagerAddTerm(term, definition, raises, index_ok) ==
    /\ op = None
    /\ index_ok \/ IndexCurrent
    /\ Len(glossary) < MaxTerms \/ term \in Keys(glossary)
    /\ LET done == add_term(glossary, term, definition, raises)
       IN  /\ glossary' = done.glossary
           /\ index_page' = IF done.result = "Added"
                            THEN update_index_page(done.glossary, index_ok)
                            ELSE index_page
           /\ op' = [name |-> "_add_term", term |-> term,
                     result |-> done.result, before |-> glossary]
    /\ UNCHANGED notManager

\* _update_term
ManagerUpdateTerm(old_term, new_term, definition, outcome, index_ok) ==
    /\ op = None
    /\ index_ok \/ IndexCurrent
    /\ old_term \in Keys(glossary)
    /\ LET done == update_term(glossary, old_term, new_term, definition, outcome)
       IN  /\ glossary' = done.glossary
           /\ index_page' = IF done.result = "Updated"
                            THEN update_index_page(done.glossary, index_ok)
                            ELSE index_page
           /\ op' = [name |-> "_update_term", term |-> old_term,
                     new_term |-> new_term, result |-> done.result,
                     before |-> glossary]
    /\ UNCHANGED notManager

\* _delete_term
ManagerDeleteTerm(term, index_ok) ==
    /\ op = None
    /\ index_ok \/ IndexCurrent
    /\ IF term \notin Keys(glossary)
       THEN /\ op' = [name |-> "_delete_term", term |-> term,
                      result |-> "not in glossary", before |-> glossary]
            /\ UNCHANGED <<glossary, index_page>>
       ELSE /\ glossary' = dict_del(glossary, term)
            /\ index_page' = update_index_page(glossary', index_ok)
            /\ op' = [name |-> "_delete_term", term |-> term,
                      result |-> "Removed", before |-> glossary]
    /\ UNCHANGED notManager

\* the sync button: the session glossary becomes what the index page holds
SyncFromIndex(fetched) ==
    /\ op = None
    /\ glossary' = load_glossary_from_index(index_page, fetched)
    /\ op' = [name |-> "sync", result |-> "Synced", before |-> glossary]
    /\ UNCHANGED index_page
    /\ UNCHANGED notManager

\* the tools of DirectTelegraphTools
ToolNames == {"create_page", "edit_page", "get_page", "get_page_list",
              "get_account_info", "get_views"}

\* _edit_page writing every page of the account, whatever path it is given
edit_page_any_path(index, path, content) == content

\* _edit_page as the index page sees it: client.edit_page writes the page at
\* the path it is given, so the index page changes when that path is its own
edit_page(index, path, content) ==
    IF path = IndexPath THEN content ELSE index

\* DirectTelegraphTools.call_tool_sync in a chat turn: create_page makes a new
\* page, edit_page writes the page at the path it is given, the rest read
CallToolSync(name, path, content, raises) ==
    /\ op = None
    /\ name \notin {"edit_page", "get_page"} => path = <<>>
    /\ name \notin {"edit_page", "create_page"} => content = [text |-> "Hello"]
    /\ LET failed == raises \/ (name \in {"edit_page", "get_page"} /\ path = <<>>)
       IN  /\ index_page' = IF name = "edit_page" /\ ~failed
                            THEN edit_page(index_page, path, content)
                            ELSE index_page
           /\ op' = [name |-> name, path |-> path,
                     result |-> IF failed THEN "Error" ELSE "success",
                     before |-> glossary]
    /\ UNCHANGED glossary
    /\ UNCHANGED notManager

\* the script run of the operation is over
OperationReturns ==
    /\ op # None
    /\ op' = None
    /\ UNCHANGED <<glossary, index_page>>
    /\ UNCHANGED notManager

NextManager ==
    \/ \E term \in GlossaryTerms, definition \in EditorContents,
          raises \in BOOLEAN, index_ok \in BOOLEAN :
          ManagerAddTerm(term, definition, raises, index_ok)
    \/ \E old_term \in GlossaryTerms, new_term \in GlossaryTerms,
          definition \in EditorContents, outcome \in EditOutcomes,
          index_ok \in BOOLEAN :
          ManagerUpdateTerm(old_term, new_term, definition, outcome, index_ok)
    \/ \E term \in GlossaryTerms, index_ok \in BOOLEAN :
          ManagerDeleteTerm(term, index_ok)
    \/ \E fetched \in BOOLEAN : SyncFromIndex(fetched)
    \/ \E name \in ToolNames, path \in ToolPaths, content \in ToolContents,
          raises \in BOOLEAN : CallToolSync(name, path, content, raises)
    \/ OperationReturns

\* the glossary of a session under the manager, the sync and the chat's tools
SpecManager == InitChat /\ [][NextManager]_vars

SyncedRepeatedTerm ==
    /\ op # None
    /\ op.name = "sync"
    /\ "terms" \in DOMAIN index_page
    /\ Len(index_page.terms) = 4
    /\ Len(glossary) = 2

----------------------------------------------------------------------------
\* the chat turn when the provider SDK raises

\* the messages of the exceptions of the provider SDKs: network, auth
SdkErrors == {"Connection error.", "Incorrect API key provided."}

\* the exception that came out of provider.chat, kept in place of a response
Raised(message) == [raised |-> TRUE, message |-> message]

\* _get_ai_response: except Exception as e, with no text
error_text_blank(message) == JString("")

\* _get_ai_response: except Exception as e: return f"Error: {str(e)}"
error_text(message) == JString("Error: " \o message)

\* _handle_chat_input with a prompt, and _get_ai_response when the SDK call of
\* the first provider.chat raises: no provider catches it, _get_ai_response
\* does
RequestModelRaises(prompt, message) ==
    LET history == Append(chat_messages, ChatMessage("user", prompt))
        messages == build_messages_for_ai(history)
    IN /\ pc = "AwaitingUserInput"
       /\ Len(chat_messages) < 2 * MaxTurns
       /\ chat_messages' = history
       /\ requests' = <<full_messages(ai_provider, glossary, messages)>>
       /\ model_response' = Raised(message)
       /\ pending_calls' = <<>>
       /\ results' = <<>>
       /\ dispatched' = <<>>
       /\ response_text' = error_text(message)
       /\ pc' = "Responding"
       /\ UNCHANGED ai_provider
       /\ UNCHANGED notChat

\* _handle_tool_calls when the SDK call of the follow-up provider.chat raises
FollowUpRaises(message) ==
    LET messages == build_messages_for_ai(chat_messages)
        formatted == [i \in 1..Len(results) |->
                         format_tool_result_call(ai_provider, results[i])]
        follow_up_messages ==
            messages \o [i \in 1..Len(results) |-> formatted[i].value]
        final_messages ==
            IF ai_provider = "Claude" THEN follow_up_messages
            ELSE <<SystemMessage(glossary)>> \o follow_up_messages
    IN /\ pc = "ExecutingTools"
       /\ Len(results) = Len(pending_calls)
       /\ ~formatted[1].raised
       /\ requests' = Append(requests, final_messages)
       /\ model_response' = Raised(message)
       /\ response_text' = error_text(message)
       /\ pc' = "Responding"
       /\ UNCHANGED <<ai_provider, chat_messages, pending_calls, results,
                      dispatched>>
       /\ UNCHANGED notChat

NextChatErrors ==
    \/ \E provider \in Providers : SelectProvider(provider)
    \/ ClearChat
    \/ \E prompt \in Prompts, resp \in AllResponses : RequestModel(prompt, resp)
    \/ \E prompt \in Prompts, message \in SdkErrors :
          RequestModelRaises(prompt, message)
    \/ CheckToolCalls
    \/ \E outcome \in ToolOutcomes : ExecuteTool(outcome)
    \/ \E resp \in AllResponses : FollowUp(resp)
    \/ \E message \in SdkErrors : FollowUpRaises(message)
    \/ Respond
    \/ FinishTurn

\* the AI chat tab of one session, with an API that may fail
SpecChatErrors == InitChat /\ [][NextChatErrors]_vars

\* provider.chat of the turn has raised
SdkRaised == "raised" \in DOMAIN model_response

\* C22: an exception of the SDK call inside provider.chat comes out of the
\* provider as it is, and _get_ai_response makes the text "Error: <message>"
\* of it; the turn goes on to show that text and ends with it as the
\* assistant's message in the history
C22_SdkErrorBecomesReply ==
    /\ [](SdkRaised =>
            /\ pc = "Responding"
            /\ response_text = JString("Error: " \o model_response.message))
    /\ [][SdkRaised =>
            /\ pc' = "AwaitingUserInput"
            /\ chat_messages' =
                  Append(chat_messages,
                         ChatMessage("assistant",
                                     JString("Error: " \o model_response.message)))]_vars

\* the follow-up request of a Gemini turn failed after its tool had run, and
\* the turn is about to answer with the error text
C22_Witness ==
    /\ SdkRaised
    /\ ai_provider = "Gemini"
    /\ Len(requests) = 2
    /\ Len(results) >= 1
    /\ response_text = JString("Error: Connection error.")

----------------------------------------------------------------------------
\* TextParser.process_text on glossaries whose keys differ only in case

\* terms that are equal ignoring case
CaseTerms == {<<"a", "a">>, <<"a", "A">>, <<"A", "a">>, <<"A", "A">>}

\* the pattern the texts are marked with
CasePattern == DEFAULT_SYNTAX_PATTERNS["{{}}"]

\* a text that marks the term twice
TwiceMarked(term) ==
    Mark(CasePattern, term) \o <<" ">> \o Mark(CasePattern, term)

\* a term becomes the last key of the glossary the parser is given
InsertCaseTerm(term) ==
    /\ Len(glossary) < MaxCaseKeys
    /\ term \notin Keys(glossary)
    /\ glossary' = Append(glossary,
                          [term |-> term, telegraph_url |-> PageUrl(term)])
    /\ returned' = None
    /\ input_text' = <<>>
    /\ UNCHANGED <<SYNTAX_PATTERNS, settings, typed, marks, parser, error,
                   validation, aiVars>>

\* process_text on a text that marks the term twice
ResolveMarked(term, output_format) ==
    /\ input_text' = TwiceMarked(term)
    /\ returned' = [fmt |-> output_format, term |-> term,
                    result |-> process_text(CasePattern, glossary,
                                            TwiceMarked(term), output_format)]
    /\ UNCHANGED <<SYNTAX_PATTERNS, settings, glossary, typed, marks, parser,
                   error, validation, aiVars>>

NextResolve ==
    \/ \E term \in CaseTerms : InsertCaseTerm(term)
    \/ \E term \in CaseTerms, f \in Formats : ResolveMarked(term, f)

\* the parser on glossaries of keys that differ only in case
SpecResolve == InitChat /\ [][NextResolve]_vars

\* the link process_text is to put for each of the two marks of the term when
\* it resolves to the entry e
TwiceLinked(term, e, output_format) ==
    format_link(term, e.telegraph_url, output_format) \o <<" ">>
    \o format_link(term, e.telegraph_url, output_format)

\* C23: a raw term that is a key of the glossary resolves to that key; a raw
\* term that is no key and equals several keys ignoring case resolves to the
\* one of them inserted first; both marks of the text are linked to the URL of
\* that entry, and its key is what is recorded as found
C23_ResolutionOrder ==
    returned # None =>
        LET term == returned.term
            res == returned.result
            same == {i \in 1..Len(glossary) :
                        Lower(glossary[i].term) = Lower(term)}
        IN  IF \E i \in 1..Len(glossary) : glossary[i].term = term
            THEN LET e == glossary[CHOOSE i \in 1..Len(glossary) :
                                      glossary[i].term = term]
                 IN  /\ res.found_terms = <<term, term>>
                     /\ res.processed = TwiceLinked(term, e, returned.fmt)
                     /\ res.missing_terms = <<>>
            ELSE IF same # {}
            THEN LET first == CHOOSE i \in same : \A j \in same : i <= j
                 IN  /\ res.found_terms =
                           <<glossary[first].term, glossary[first].term>>
                     /\ res.processed =
                           TwiceLinked(term, glossary[first], returned.fmt)
                     /\ res.missing_terms = <<>>
            ELSE res.found_terms = <<>>

\* "aa" is no key of a glossary that got "aA" first and "Aa" second, and both
\* marks of "aa" were linked to the page of "aA"
C23_Witness ==
    /\ returned # None
    /\ returned.term = <<"a", "a">>
    /\ returned.fmt = "markdown"
    /\ Len(glossary) = 2
    /\ glossary[1].term = <<"a", "A">>
    /\ glossary[2].term = <<"A", "a">>
    /\ returned.result.found_terms = <<(<<"a", "A">>), (<<"a", "A">>)>>
    /\ returned.result.processed =
          <<"[", "a", "a", "]", "(", "/", "a", "A", ")", " ",
            "[", "a", "a", "]", "(", "/", "a", "A", ")">>

\* "aa" is a key inserted after "aA", and the marks of "aa" were linked to the
\* page of "aa"
ExactAfterCaseMatch ==
    /\ returned # None
    /\ returned.term = <<"a", "a">>
    /\ returned.fmt = "markdown"
    /\ Len(glossary) = 2
    /\ glossary[1].term = <<"a", "A">>
    /\ glossary[2].term = <<"a", "a">>
    /\ returned.result.found_terms = <<(<<"a", "a">>), (<<"a", "a">>)>>

\* the messages of a glossary operation that failed
FailureResults == {"already exists", "Failed to add term",
                   "Failed to update term", "Update verification failed"}

\* C24: when _add_term is refused because the key exists, or the page call of
\* _add_term or _update_term raises, the session glossary is what it was
\* before: nothing added, removed, renamed or modified
C24_FailureKeepsGlossary ==
    (op # None /\ op.result \in FailureResults) => glossary = op.before

\* a rename of "a" to "A" failed at the page call while the glossary held both,
\* and the glossary still holds both
C24_Witness ==
    /\ op # None
    /\ op.name = "_update_term"
    /\ op.result = "Failed to update term"
    /\ op.term = <<"a">>
    /\ op.new_term = <<"A">>
    /\ Keys(glossary) = {<<"a">>, <<"A">>}

\* an add of a key that exists was refused
AddRefused ==
    /\ op # None
    /\ op.name = "_add_term"
    /\ op.result = "already exists"
    /\ Len(glossary) = MaxTerms

\* the entries of the terms in ks are in g what they were in before
EntriesKept(before, g, ks) ==
    \A k \in ks : k \in Keys(g) /\ Entry(g, k) = Entry(before, k)

\* what a successful operation may change, as a relation between the glossary
\* before and after: exactly the entry of the term it targets
OnlyTargetChanged ==
    CASE op.result = "Added" ->
            /\ op.term \notin Keys(op.before)
            /\ Keys(glossary) = Keys(op.before) \cup {op.term}
            /\ EntriesKept(op.before, glossary, Keys(op.before))
      [] op.result = "Removed" ->
            /\ Keys(glossary) = Keys(op.before) \ {op.term}
            /\ EntriesKept(op.before, glossary, Keys(op.before) \ {op.term})
      [] op.result = "Updated" ->
            /\ Keys(glossary) = (Keys(op.before) \ {op.term}) \cup {op.new_term}
            /\ EntriesKept(op.before, glossary, Keys(op.before) \ {op.term})
      [] OTHER -> TRUE

\* C25: a successful _add_term, _delete_term or _update_term changes only the
\* entry it targets, every other term's entry staying present and unchanged
C25_AsStated ==
    (op # None /\ op.name \in {"_add_term", "_update_term", "_delete_term"})
        => OnlyTargetChanged

\* the same, leaving out an update whose new name is another term's key
OnlyTargetChangedOnFreeName ==
    (/\ op # None
     /\ op.name \in {"_add_term", "_update_term", "_delete_term"}
     /\ ~ (/\ op.name = "_update_term"
           /\ op.new_term # op.term
           /\ op.new_term \in Keys(op.before)))
        => OnlyTargetChanged

\* a rename onto another term's key succeeded and that term's entry is gone
RenamedOntoOtherTerm ==
    /\ op # None
    /\ op.name = "_update_term"
    /\ op.result = "Updated"
    /\ op.new_term # op.term
    /\ op.new_term \in Keys(op.before)
    /\ Entry(glossary, op.new_term) # Entry(op.before, op.new_term)

\* the term count that _build_system_prompt reports for the glossary g
term_count(g) == Len(g)

\* the step is a tool call of a chat turn
ToolCallStep == op = None /\ op' # None /\ op'.name \in ToolNames

\* the step is an edit_page call that succeeded on the path of the index page
EditsIndexPage ==
    /\ op'.name = "edit_page"
    /\ op'.result = "success"
    /\ op'.path = IndexPath

EditedTermPage ==
    /\ op # None
    /\ op.name = "edit_page"
    /\ op.result = "success"
    /\ op.path = <<"a">>
    /\ term_count(glossary) = MaxTerms
    /\ index_page = generate_index(glossary)

\* msg is an assistant message that carries the tool call: a message of the
\* model's role whose tool-call part (content blocks, tool_calls or parts, not
\* a plain text) names the call's tool
CarriesToolCall(msg, tool_call) ==
    /\ msg.kind = "object"
    /\ Get(msg, "role", JNull) \in {JString("assistant"), JString("model")}
    /\ \E key \in DOMAIN msg.members \ {"role"} :
          /\ msg.members[key].kind # "string"
          /\ tool_call.members["name"] \in StringsIn(msg.members[key])

\* C27, as stated: in the messages of the follow-up request every tool-result
\* message comes after an assistant message that carries the tool call it
\* answers
C27_AsStated ==
    Len(requests) = 2 =>
        \A i \in 1..Len(ResultMessages) :
            LET at == Len(requests[2]) - Len(ResultMessages) + i
            IN \E j \in 1..(at - 1) :
                  CarriesToolCall(requests[2][j], pending_calls[i])

\* what the code sends: between the prior conversation and the tool results
\* there is no message at all, and none of the prior messages is more than a
\* role and a text
NoToolCallMessage ==
    Len(requests) = 2 =>
        /\ PriorKept
        /\ Len(ResultMessages) = Len(results)
        /\ \A j \in 1..(Len(requests[2]) - Len(ResultMessages)) :
              \A i \in 1..Len(pending_calls) :
                  ~ CarriesToolCall(requests[2][j], pending_calls[i])

\* a follow-up request of a second turn, after a first turn that also ended
\* with an assistant reply
FollowUpInSecondTurn ==
    /\ Len(requests) = 2
    /\ Len(chat_messages) = 3
    /\ Len(ResultMessages) = 1

\* the reply texts the response dictionary of a provider's chat() carries:
\* the text blocks of content for Claude and Gemini, and
\* choices[0].message.content for OpenAI
ReplyTexts(provider, resp) ==
    IF provider = "OpenAI"
    THEN LET choices == Get(resp, "choices", JArray(<<>>)).items
             content == IF choices = <<>> THEN JNull
                        ELSE Get(Get(choices[1], "message", JObject(EmptyMembers)),
                                 "content", JNull)
         IN IF content.kind = "string" THEN <<content.value>> ELSE <<>>
    ELSE LET blocks == SelectSeq(Get(resp, "content", JArray(<<>>)).items,
                           LAMBDA item : Get(item, "type", JNull) = JString("text"))
         IN [i \in 1..Len(blocks) |-> blocks[i].members["text"].value]

\* the final response of the turn carries reply text and no tool calls
FinalReplyText ==
    /\ TextExtracted
    /\ Falsy(ExtractOf(ai_provider, model_response))
    /\ ReplyTexts(ai_provider, model_response) # <<>>

\* C28, as stated: for every provider, when the final response of a turn
\* carries reply text and no tool calls, the text the turn returns is that
\* reply text and not the fallback string
C28_AsStated ==
    FinalReplyText =>
        /\ response_text # JString("No response generated.")
        /\ response_text =
               JString(Join("\n", ReplyTexts(ai_provider, model_response)))

\* the same for the providers whose response has its text blocks at the top
\* level, Claude and Gemini
TextRecoveredFromBlocks ==
    (FinalReplyText /\ ai_provider # "OpenAI") =>
        /\ response_text # JString("No response generated.")
        /\ response_text =
               JString(Join("\n", ReplyTexts(ai_provider, model_response)))

\* a Gemini turn ended with the text of its response
GeminiTextRecovered ==
    /\ FinalReplyText
    /\ ai_provider = "Gemini"
    /\ response_text = JString("Hello")

\* every OpenAI turn whose final response carries text ends with the fallback
OpenAIAlwaysFallback ==
    (FinalReplyText /\ ai_provider = "OpenAI") =>
        response_text = JString("No response generated.")

\* the positions of the events of a type among the events yielded
YieldedOfType(type) == {i \in 1..Len(yielded) : yielded[i].type = type}

\* the worker of the event stream raised
WorkerFailed ==
    \E i \in 1..Len(produced) :
        produced[i] = StreamEvent("error", [message |-> "boom"])

RECURSIVE Concatenated(_)
\* the texts of a sequence, one after the other
Concatenated(texts) ==
    IF texts = <<>> THEN "" ELSE Head(texts) \o Concatenated(Tail(texts))

\* the deltas of the TEXT_DELTA events yielded, concatenated in order
DeltasYielded ==
    LET at == {i \in 1..Len(yielded) : yielded[i].type = "text_delta"}
        nth(k) == CHOOSE i \in at : Cardinality({j \in at : j < i}) = k - 1
    IN Concatenated([k \in 1..Cardinality(at) |-> yielded[nth(k)].data.delta])

\* the event stream has ended
EventStreamDone == consumer_pc = "done" /\ stream = "events"

FailedAfterChunk ==
    /\ EventStreamDone
    /\ WorkerFailed
    /\ ~TimedOut
    /\ Len(yielded) = 2
    /\ yielded[1].type = "text_delta"
    /\ yielded[2] = StreamEvent("error", [message |-> "boom"])

\* the drain timed out and the worker completed afterwards: its DONE event is
\* on the queue and was not yielded
DoneNeverYielded ==
    /\ EventStreamDone
    /\ TimedOut
    /\ \E i \in 1..Len(queue) : queue[i] # None /\ queue[i].type = "done"
    /\ YieldedOfType("done") = {}

-----------------------------------------------------------------------------
\* pydantic_ai_service: the services of two browser sessions in one process

\* the browser sessions of the server process
Sessions == {1, 2}

\* the providers a service is constructed for
ServiceProviders == {"Claude", "OpenAI", "Gemini"}

\* the API keys the users enter
ApiKeys == {[key |-> "sk-1"], [key |-> "sk-2"]}

MODEL_NAMES ==
    [Claude |-> "anthropic:claude-opus-4-5-20251101",
     OpenAI |-> "openai:gpt-5.1",
     Gemini |-> "google-gla:gemini-2.5-flash"]

API_KEY_ENV_VARS ==
    [Claude |-> "ANTHROPIC_API_KEY",
     OpenAI |-> "OPENAI_API_KEY",
     Gemini |-> "GOOGLE_API_KEY"]

\* _set_api_key_env: os.environ[env_var] = self.api_key
set_api_key_env(env, provider, api_key) ==
    [env EXCEPT ![API_KEY_ENV_VARS[provider]] = api_key]

\* Agent(self._get_model_name(), system_prompt=...): the agent is made from the
\* model name alone, so the key of its model is the one the environment
\* variable of the provider holds when the agent is created
create_agent(service, env) ==
    [model |-> MODEL_NAMES[service.provider],
     api_key |-> env[API_KEY_ENV_VARS[service.provider]]]

\* TelegraphAIService.__init__ in a session
ConstructService(session, provider, api_key) ==
    /\ services[session] = None
    /\ services' = [services EXCEPT ![session] =
                       [provider |-> provider, api_key |-> api_key]]
    /\ environ' = set_api_key_env(environ, provider, api_key)
    /\ UNCHANGED <<agents, model_call>>
    /\ UNCHANGED notService

\* a chat call of the service of a session creates its agent
CreateAgent(session) ==
    /\ services[session] # None
    /\ agents[session] = None
    /\ model_call = None
    /\ agents' = [agents EXCEPT ![session] =
                     create_agent(services[session], environ)]
    /\ UNCHANGED <<services, environ, model_call>>
    /\ UNCHANGED notService

\* the agent of the chat call runs: the model is called
ModelCall(session) ==
    /\ agents[session] # None
    /\ model_call = None
    /\ model_call' = [service |-> services[session],
                      session |-> session,
                      api_key |-> agents[session].api_key]
    /\ agents' = [agents EXCEPT ![session] = None]
    /\ UNCHANGED <<services, environ>>
    /\ UNCHANGED notService

\* the model call is over
ModelCallReturns ==
    /\ model_call # None
    /\ model_call' = None
    /\ UNCHANGED <<services, environ, agents>>
    /\ UNCHANGED notService

\* the session ends and its service with it
EndSession(session) ==
    /\ services[session] # None
    /\ agents[session] = None
    /\ model_call = None
    /\ services' = [services EXCEPT ![session] = None]
    /\ UNCHANGED <<environ, agents, model_call>>
    /\ UNCHANGED notService

NextServices ==
    \/ \E session \in Sessions, provider \in ServiceProviders,
          api_key \in ApiKeys : ConstructService(session, provider, api_key)
    \/ \E session \in Sessions : CreateAgent(session)
    \/ \E session \in Sessions : ModelCall(session)
    \/ ModelCallReturns
    \/ \E session \in Sessions : EndSession(session)

\* two browser sessions of one server process and their services
SpecServices == InitChat /\ [][NextServices]_vars

\* C30, as stated: every model call of a service uses the API key the service
\* was constructed with, whatever the other session constructs or calls
C30_AsStated ==
    model_call # None => model_call.api_key = model_call.service.api_key

\* what the code does: an agent gets the key that the environment variable of
\* its provider holds when it is created, the key of the service constructed
\* last for that provider in the process
KeyOfEnvironmentUsed ==
    [][\A session \in Sessions :
          (agents[session] = None /\ agents'[session] # None) =>
              /\ environ[API_KEY_ENV_VARS[services[session].provider]] # None
              /\ agents'[session].api_key =
                     environ[API_KEY_ENV_VARS[services[session].provider]]]_vars

\* both sessions have a service of the same provider with different keys, and
\* the model call of session 1 was made with the key of session 2
KeyOfOtherSessionUsed ==
    /\ model_call # None
    /\ services[1] # None
    /\ services[2] # None
    /\ services[1].provider = services[2].provider
    /\ services[1].api_key # services[2].api_key
    /\ model_call.session = 1
    /\ model_call.service = services[1]
    /\ model_call.api_key = services[2].api_key

\* two services of different providers, and a model call with its own key
OwnKeyUsed ==
    /\ model_call # None
    /\ services[1] # None
    /\ services[2] # None
    /\ services[1].provider # services[2].provider
    /\ model_call.api_key = model_call.service.api_key

====
